---- MODULE Spec2Model ----
(***************************************************************************)
(* Rustizarr: the per-item poster pipeline (processor.rs, main.rs), the    *)
(* entry points that drive it (cli.rs, main.rs) and the bounded-parallel   *)
(* dispatcher (processor.rs).                                              *)
(*                                                                         *)
(* The media server is modelled by the "Rustizarr" label each item         *)
(* carries.  One command runs at a time; it walks its batch either in a    *)
(* sequential loop or through buffer_unordered.  Every outbound HTTP       *)
(* request of a pipeline is a suspension point and one step of the model;  *)
(* the response of the remote service is drawn when the step is taken and  *)
(* recorded in the run.  Webhook tasks are taken one at a time.            *)
(***************************************************************************)
EXTENDS Integers, Sequences, FiniteSets, TLC

VARIABLES
    labelled,   \* media server: item -> the item carries the "Rustizarr" label
    cmd,        \* the command in progress: entry point, flags, batch, dispatcher queue
    run,        \* item -> the pipeline run of the item in the current command
    results,    \* batch item -> number of outcomes the batch driver obtained for it
    last,       \* item -> summary of the previous completed run (two-run properties)
    srv,        \* the HTTP server: clock, catalog cache, webhook tasks, handlers
    img         \* one poster on its way through the compositing stages

vars == <<labelled, cmd, run, results, last, srv, img>>

\* the variables the command-line model leaves alone
elsewhere == <<srv, img>>

---------------------------------------------------------------------------
(* Bounds *)

NItems == 2         \* items of the library in Spec and SpecTwice
MaxParallel == 3    \* largest --parallel value drawn in Spec and SpecTwice
DItems == 11        \* items of the library in SpecDispatch
DParallel == 12     \* largest --parallel value drawn in SpecDispatch

(* Program constants *)

MAX_CONCURRENCY == 10

Items == 1..NItems

Min(a, b) == IF a < b THEN a ELSE b

RECURSIVE SeqOf(_)
SeqOf(S) ==
    IF S = {} THEN <<>>
    ELSE LET m == CHOOSE x \in S : \A y \in S : x <= y
         IN  <<m>> \o SeqOf(S \ {m})

---------------------------------------------------------------------------
(* Entry points *)

CliEntries == {"scan", "process", "processAll", "scanShows", "processShow",
               "scanSeasons", "processSeason"}
ServerEntries == {"httpScan", "webhook"}

\* which pipeline function an entry point calls
PipelineOf(entry) ==
    CASE entry \in {"scan", "process", "processAll"} -> "movie"
      [] entry \in {"scanShows", "processShow"} -> "show"
      [] entry \in {"scanSeasons", "processSeason"} -> "season"
      [] OTHER -> "server"

\* faulty variant: the --parallel value is used as given
ConcurrencyUnclamped(parallel) == parallel

\* let concurrency = parallel.min(10)
Concurrency(parallel) == Min(parallel, MAX_CONCURRENCY)

\* if concurrency > 1 { parallel dispatcher } else { sequential loop }
IsParallel(conc) == conc > 1

\* faulty variant: the label test does not look at --force
SeqLabelCheckNoForce(entry, force, snap) == snap

\* the label test of the sequential loops and single-item commands
SeqLabelCheck(entry, force, snap) ==
    CASE entry \in CliEntries -> (~force /\ snap)
      [] entry = "httpScan" -> snap
      [] OTHER -> FALSE       \* webhook task: no label test before the pipeline

\* faulty variant: the futures' label test does not look at --force
ParLabelCheckNoForce(force, snap) == snap

\* the label test inside the futures of the two parallel dispatchers
ParLabelCheck(force, snap) == ~force /\ snap

---------------------------------------------------------------------------
(* Records *)

NoCmd == [phase |-> "idle", entry |-> "none", force |-> FALSE, parallel |-> 0,
          conc |-> 0, batch |-> <<>>, next |-> 1, inflight |-> {}]

NoRun == [pc |-> "none", snap |-> FALSE, id |-> "-", look |-> "-", dl |-> "-",
          up |-> "-", lbl |-> "-", upReq |-> FALSE, lblReq |-> FALSE,
          outcome |-> "-"]

NoLast == [outcome |-> "-", force |-> FALSE, marked |-> FALSE, uploads |-> 0]

\* the server and the compositor at rest
NoSrv == [phase |-> "off"]

NoImg == [stage |-> "none"]

Done(r, o) == [r EXCEPT !.pc = "done", !.outcome = o]

---------------------------------------------------------------------------
(* Film/TV metadata client (tmdb.rs) *)

\* what the remote service can answer to one request
TmdbResponses == {"url", "none", "http", "neterr"}

\* faulty variant: the client turns a network error into Ok(None)
ClientResultSwallow(resp) == IF resp = "url" THEN "some" ELSE "none"

\* every client function: send().await? propagates a network error, a
\* non-success status returns Ok(None), otherwise Ok(Some(url)) or Ok(None)
ClientResult(resp) ==
    CASE resp = "url" -> "some"
      [] resp = "neterr" -> "err"
      [] OTHER -> "none"

---------------------------------------------------------------------------
(* Per-item pipeline (process_movie, process_show, process_season,         *)
(* process_movie_logic)                                                    *)

\* the item metadata the external-id step reads
Metas == [forced : BOOLEAN, guidTmdb : BOOLEAN, legacy : BOOLEAN]

\* extract_tmdb_id: tmdb:// guid entry, else legacy themoviedb:// string
ExtractTmdbId(meta) == meta.guidTmdb \/ meta.legacy

\* extract_tmdb_id_from_show: guid list only
ExtractTmdbIdFromShow(meta) == meta.guidTmdb

\* tmdb_id_opt of each pipeline; a season receives its show's id as an argument
TmdbIdOpt(kind, meta) ==
    CASE kind \in {"movie", "server"} -> (meta.forced \/ ExtractTmdbId(meta))
      [] kind = "show" -> ExtractTmdbIdFromShow(meta)
      [] OTHER -> TRUE

\* final_url / poster_url of the lookup: "some", "none", or "err" when the
\* client error is returned to the caller of the pipeline with `?`
FinalUrl(kind, t, s) ==
    IF kind = "season"
    THEN ClientResult(s)
    ELSE CASE ClientResult(t) = "some" -> "some"
           [] ClientResult(t) = "none" ->
                 (IF ClientResult(s) = "some" THEN "some" ELSE "none")
           [] OTHER -> "none"

\* what happened during the lookup, recorded in the run: a poster was found,
\* a network error occurred, a non-success status occurred, or plain absence
LookCause(kind, t, s) ==
    LET used == IF kind = "season" THEN {s}
                ELSE IF ClientResult(t) = "none" THEN {t, s} ELSE {t}
    IN  IF FinalUrl(kind, t, s) = "some" THEN "some"
        ELSE IF "neterr" \in used THEN "neterr"
        ELSE IF "http" \in used THEN "http"
        ELSE "none"

\* faulty variant: a missing external id is returned as Err
AfterBeginErr(kind, r, hasId) ==
    IF hasId
    THEN [r EXCEPT !.id = "some", !.pc = "lookup"]
    ELSE Done([r EXCEPT !.id = "none"], "error")

\* first synchronous part of a pipeline: the external id
AfterBegin(kind, r, hasId) ==
    IF hasId
    THEN [r EXCEPT !.id = "some", !.pc = "lookup"]
    ELSE Done([r EXCEPT !.id = "none"], "soft")

\* the poster lookup has answered
AfterLookup(kind, r, t, s) ==
    LET rr == [r EXCEPT !.look = LookCause(kind, t, s)]
    IN  CASE FinalUrl(kind, t, s) = "some" -> [rr EXCEPT !.pc = "download"]
          [] FinalUrl(kind, t, s) = "err" -> Done(rr, "error")
          [] OTHER -> Done(rr, "soft")

\* download_image has answered and the compositing stages and the JPEG
\* encoder have run: d = "fail" the download failed, "asset" a stage
\* returned Err, "ok" otherwise.  The POST of the poster is then issued.
AfterDownload(kind, r, d) ==
    LET rr == [r EXCEPT !.dl = d]
        post == [rr EXCEPT !.pc = "upload", !.upReq = TRUE]
    IN  CASE d = "ok" -> post
          [] d = "fail" -> Done(rr, IF kind = "season" THEN "error" ELSE "soft")
          [] OTHER -> IF kind = "server" THEN post ELSE Done(rr, "error")

\* faulty variant: the label request follows the upload whatever its result
AfterUploadAlways(kind, r, u) ==
    [r EXCEPT !.up = u, !.pc = "label", !.lblReq = TRUE]

\* upload_poster has answered
AfterUpload(kind, r, u) ==
    IF u = "ok"
    THEN [r EXCEPT !.up = "ok", !.pc = "label", !.lblReq = TRUE]
    ELSE Done([r EXCEPT !.up = "fail"], "error")

\* faulty variant: a failed label request is returned as Err
AfterLabelFatal(kind, r, l) ==
    Done([r EXCEPT !.lbl = l], IF l = "ok" THEN "success" ELSE "error")

\* add_label has answered
AfterLabel(kind, r, l) == Done([r EXCEPT !.lbl = l], "success")

\* faulty variant: the media server answers success and drops the label
ServerLabelLost(lab, i, l) == lab

\* the media server applies a label request it answers with success
ServerLabel(lab, i, l) == IF l = "ok" THEN [lab EXCEPT ![i] = TRUE] ELSE lab

---------------------------------------------------------------------------
(* Batch drivers: the sequential `for` loops and buffer_unordered *)

\* the driver can start the next item of the batch: the loop is between two
\* iterations, or the dispatcher's queue holds fewer than `conc` futures
CanPull(c) ==
    /\ c.phase = "running"
    /\ c.next <= Len(c.batch)
    /\ IF IsParallel(c.conc)
       THEN Cardinality(c.inflight) < c.conc
       ELSE c.inflight = {}

\* the driver starts item i = batch[next]
Pull(c, i) == [c EXCEPT !.next = @ + 1, !.inflight = @ \cup {i}]

\* faulty variant: an Err outcome ends the batch
CompleteAbort(c, i, o) ==
    IF o = "error"
    THEN [c EXCEPT !.inflight = @ \ {i}, !.next = Len(c.batch) + 1]
    ELSE [c EXCEPT !.inflight = @ \ {i}]

\* the pipeline of item i has produced its outcome o: the future leaves the
\* queue, or the loop goes to its next iteration
Complete(c, i, o) == [c EXCEPT !.inflight = @ \ {i}]

\* the driver obtains the outcome: the (title, result) pair pushed by
\* collect(), or the match on the pipeline's result in the loop body
Deliver(res, i, o) == [res EXCEPT ![i] = @ + 1]

\* a command over the items of S
NewCmd(entry, force, parallel, S) ==
    [phase |-> "running", entry |-> entry, force |-> force,
     parallel |-> parallel,
     conc |-> IF entry \in {"scan", "scanShows"} THEN Concurrency(parallel) ELSE 1,
     batch |-> SeqOf(S), next |-> 1, inflight |-> {}]

\* the items as fetched from the media server for the batch (item details
\* for movies, the section or children listing for shows and seasons); the
\* server is taken to report the label an item carries in each of them
Fetched(S) ==
    [i \in Items |-> IF i \in S
                     THEN [NoRun EXCEPT !.pc = "queued", !.snap = labelled[i]]
                     ELSE NoRun]

Start(entry, force, parallel, S) ==
    /\ cmd.phase = "idle"
    /\ cmd' = NewCmd(entry, force, parallel, S)
    /\ run' = Fetched(S)
    /\ results' = [i \in S |-> 0]
    /\ UNCHANGED <<labelled, last, elsewhere>>

---------------------------------------------------------------------------
(* Entry points *)

\* rustizarr scan [--force] [--parallel N]
CliScan(S, force, parallel) == Start("scan", force, parallel, S)

\* rustizarr process --id ID [--force]
CliProcess(i, force) == Start("process", force, 1, {i})

\* rustizarr process --all [--force]
CliProcessAll(S, force) == Start("processAll", force, 1, S)

\* rustizarr scan-shows [--force] [--parallel N]
CliScanShows(S, force, parallel) == Start("scanShows", force, parallel, S)

\* rustizarr process-show --id ID [--force]
CliProcessShow(i, force) == Start("processShow", force, 1, {i})

\* the season commands first need the external id of the parent show:
\* extract_tmdb_id_from_show(..).ok_or_else(..)? ends the command otherwise
SeasonStart(entry, force, S, showMeta) ==
    IF ExtractTmdbIdFromShow(showMeta)
    THEN Start(entry, force, 1, S)
    ELSE /\ cmd.phase = "idle"
         /\ cmd' = [NewCmd(entry, force, 1, {}) EXCEPT !.phase = "failed"]
         /\ run' = Fetched({})
         /\ results' = [i \in {} |-> 0]
         /\ UNCHANGED <<labelled, last, elsewhere>>

\* rustizarr scan-seasons --show-id ID [--force]
CliScanSeasons(S, force, showMeta) == SeasonStart("scanSeasons", force, S, showMeta)

\* rustizarr process-season --show-id ID --season-number N [--force]
CliProcessSeason(i, force, showMeta) ==
    SeasonStart("processSeason", force, {i}, showMeta)

\* GET /scan
HttpScan(S) == Start("httpScan", FALSE, 1, S)

\* the background task spawned by POST /webhook
Webhook(i) == Start("webhook", FALSE, 1, {i})

---------------------------------------------------------------------------
(* Steps of a command *)

\* the run of item i moves to r2; a finished run leaves the driver's queue
\* and hands over its outcome
Advance(i, r2) ==
    /\ run' = [run EXCEPT ![i] = r2]
    /\ IF r2.pc = "done"
       THEN /\ cmd' = Complete(cmd, i, r2.outcome)
            /\ results' = Deliver(results, i, r2.outcome)
       ELSE UNCHANGED <<cmd, results>>

\* the driver starts the next item: label test, then the pipeline up to its
\* first request
Begin ==
    /\ CanPull(cmd)
    /\ LET i == cmd.batch[cmd.next]
           kind == PipelineOf(cmd.entry)
           skip == IF IsParallel(cmd.conc)
                   THEN ParLabelCheck(cmd.force, run[i].snap)
                   ELSE SeqLabelCheck(cmd.entry, cmd.force, run[i].snap)
       IN  \E meta \in Metas :
             LET r2 == IF skip THEN Done(run[i], "skip")
                       ELSE AfterBegin(kind, run[i], TmdbIdOpt(kind, meta))
             IN  /\ run' = [run EXCEPT ![i] = r2]
                 /\ IF r2.pc = "done"
                    THEN /\ cmd' = Complete(Pull(cmd, i), i, r2.outcome)
                         /\ results' = Deliver(results, i, r2.outcome)
                    ELSE /\ cmd' = Pull(cmd, i)
                         /\ UNCHANGED results
    /\ UNCHANGED <<labelled, last, elsewhere>>

Lookup(i) ==
    /\ run[i].pc = "lookup"
    /\ \E t, s \in TmdbResponses :
          Advance(i, AfterLookup(PipelineOf(cmd.entry), run[i], t, s))
    /\ UNCHANGED <<labelled, last, elsewhere>>

Download(i) ==
    /\ run[i].pc = "download"
    /\ \E d \in {"ok", "fail", "asset"} :
          Advance(i, AfterDownload(PipelineOf(cmd.entry), run[i], d))
    /\ UNCHANGED <<labelled, last, elsewhere>>

Upload(i) ==
    /\ run[i].pc = "upload"
    /\ \E u \in {"ok", "fail"} :
          Advance(i, AfterUpload(PipelineOf(cmd.entry), run[i], u))
    /\ UNCHANGED <<labelled, last, elsewhere>>

Label(i) ==
    /\ run[i].pc = "label"
    /\ \E l \in {"ok", "fail"} :
          /\ Advance(i, AfterLabel(PipelineOf(cmd.entry), run[i], l))
          /\ labelled' = ServerLabel(labelled, i, l)
    /\ UNCHANGED <<last, elsewhere>>

\* the loop has run out of items, or the stream and the queue are both empty
Finish ==
    /\ cmd.phase = "running"
    /\ cmd.next > Len(cmd.batch)
    /\ cmd.inflight = {}
    /\ cmd' = [cmd EXCEPT !.phase = "done"]
    /\ UNCHANGED <<labelled, run, results, last, elsewhere>>

\* the command returns
Return ==
    /\ cmd.phase \in {"done", "failed"}
    /\ cmd' = NoCmd
    /\ run' = [i \in Items |-> NoRun]
    /\ results' = [i \in {} |-> 0]
    /\ UNCHANGED <<labelled, last, elsewhere>>

---------------------------------------------------------------------------
(* Spec: every entry point over any part of the library *)

Init ==
    /\ labelled \in [Items -> BOOLEAN]
    /\ cmd = NoCmd
    /\ run = [i \in Items |-> NoRun]
    /\ results = [i \in {} |-> 0]
    /\ last = [i \in Items |-> NoLast]
    /\ srv = NoSrv
    /\ img = NoImg

Steps ==
    \/ Begin
    \/ \E i \in Items : Lookup(i)
    \/ \E i \in Items : Download(i)
    \/ \E i \in Items : Upload(i)
    \/ \E i \in Items : Label(i)
    \/ Finish

Next ==
    \/ \E S \in SUBSET Items, f \in BOOLEAN, p \in 0..MaxParallel : CliScan(S, f, p)
    \/ \E i \in Items, f \in BOOLEAN : CliProcess(i, f)
    \/ \E S \in SUBSET Items, f \in BOOLEAN : CliProcessAll(S, f)
    \/ \E S \in SUBSET Items, f \in BOOLEAN, p \in 0..MaxParallel : CliScanShows(S, f, p)
    \/ \E i \in Items, f \in BOOLEAN : CliProcessShow(i, f)
    \/ \E S \in SUBSET Items, f \in BOOLEAN, m \in Metas : CliScanSeasons(S, f, m)
    \/ \E i \in Items, f \in BOOLEAN, m \in Metas : CliProcessSeason(i, f, m)
    \/ \E S \in SUBSET Items : HttpScan(S)
    \/ \E i \in Items : Webhook(i)
    \/ Steps
    \/ Return

Spec == Init /\ [][Next]_vars

---------------------------------------------------------------------------
(* SpecTwice: commands over one and the same item, one after another, each *)
(* leaving a summary of its run behind                                     *)

Summary(c, r) ==
    [outcome |-> r.outcome, force |-> c.force, marked |-> (r.lbl = "ok"),
     uploads |-> IF r.upReq THEN 1 ELSE 0]

\* the command returns; the observer keeps what its runs did
ReturnRecorded ==
    /\ cmd.phase \in {"done", "failed"}
    /\ cmd' = NoCmd
    /\ run' = [i \in Items |-> NoRun]
    /\ results' = [i \in {} |-> 0]
    /\ last' = [i \in Items |->
                  IF run[i].pc = "done" THEN Summary(cmd, run[i]) ELSE last[i]]
    /\ UNCHANGED <<labelled, elsewhere>>

\* the item every command of SpecTwice is about
Target == CHOOSE i \in Items : \A j \in Items : i <= j

NextTwice ==
    \/ \E f \in BOOLEAN, p \in 0..MaxParallel : CliScan({Target}, f, p)
    \/ \E f \in BOOLEAN : CliProcess(Target, f)
    \/ \E f \in BOOLEAN : CliProcessAll({Target}, f)
    \/ \E f \in BOOLEAN, p \in 0..MaxParallel : CliScanShows({Target}, f, p)
    \/ \E f \in BOOLEAN : CliProcessShow(Target, f)
    \/ \E f \in BOOLEAN, m \in Metas : CliScanSeasons({Target}, f, m)
    \/ \E f \in BOOLEAN, m \in Metas : CliProcessSeason(Target, f, m)
    \/ HttpScan({Target})
    \/ Webhook(Target)
    \/ Steps
    \/ ReturnRecorded

SpecTwice == Init /\ [][NextTwice]_vars

---------------------------------------------------------------------------
(* SpecLive: the batch commands over the whole library; every request is   *)
(* answered in the end and the runtime keeps polling the driver            *)

NextLive ==
    \/ \E f \in BOOLEAN, p \in 0..MaxParallel : CliScan(Items, f, p)
    \/ \E f \in BOOLEAN : CliProcessAll(Items, f)
    \/ \E f \in BOOLEAN, p \in 0..MaxParallel : CliScanShows(Items, f, p)
    \/ \E f \in BOOLEAN, m \in Metas : CliScanSeasons(Items, f, m)
    \/ HttpScan(Items)
    \/ Steps
    \/ Return

SpecLive == Init /\ [][NextLive]_vars /\ WF_vars(Steps)

---------------------------------------------------------------------------
(* SpecDispatch: one scan of a large library; each pipeline is reduced to  *)
(* its start and its completion, the driver is the one of Spec             *)

DLibrary == 1..DItems

Outcomes == {"skip", "success", "soft", "error"}

InitDispatch ==
    /\ labelled = [i \in Items |-> FALSE]
    /\ \E e \in {"scan", "scanShows"}, p \in 0..DParallel :
          cmd = NewCmd(e, FALSE, p, DLibrary)
    /\ run = [i \in Items |-> NoRun]
    /\ results = [i \in DLibrary |-> 0]
    /\ last = [i \in Items |-> NoLast]
    /\ srv = NoSrv
    /\ img = NoImg

\* the driver starts the next pipeline
DispBegin ==
    /\ CanPull(cmd)
    /\ cmd' = Pull(cmd, cmd.batch[cmd.next])
    /\ UNCHANGED <<labelled, run, results, last, elsewhere>>

\* a pipeline in flight produces its outcome
DispComplete(i) ==
    /\ i \in cmd.inflight
    /\ \E o \in Outcomes :
          /\ cmd' = Complete(cmd, i, o)
          /\ results' = Deliver(results, i, o)
    /\ UNCHANGED <<labelled, run, last, elsewhere>>

NextDispatch ==
    \/ DispBegin
    \/ \E i \in DLibrary : DispComplete(i)
    \/ Finish

SpecDispatch == InitDispatch /\ [][NextDispatch]_vars

---------------------------------------------------------------------------
(* The HTTP server (main.rs): catalog cache, webhook handler and its       *)
(* background tasks, GET /scan, GET /api/library.  Each await on a request *)
(* or on the cache lock is a step.  One job (a webhook task or a scan) is   *)
(* taken at a time; GET /api/library runs concurrently with it.            *)

MaxSrvClock == 20    \* seconds the server's clock runs for in SpecServer
MaxCacheClock == 905 \* seconds the clock runs for in SpecCache

CACHE_TTL == 300
SLEEP_SECS == 10

\* Option<Instant>
NoInstant == [some |-> FALSE, at |-> 0]
SomeInstant(t) == [some |-> TRUE, at |-> t]

\* LibraryCache::new
CacheNew == [movies |-> <<>>, last_update |-> NoInstant]

\* faulty variant: the cache is still valid at the very end of its duration
IsValidInclusive(c, now) ==
    c.last_update.some /\ now - c.last_update.at <= CACHE_TTL

\* LibraryCache::is_valid, at instant now
IsValid(c, now) ==
    IF c.last_update.some
    THEN now - c.last_update.at < CACHE_TTL
    ELSE FALSE

\* LibraryCache::update
CacheUpdate(c, movies, now) ==
    [c EXCEPT !.movies = movies, !.last_update = SomeInstant(now)]

\* LibraryCache::get
CacheGet(c, now) ==
    IF IsValid(c, now)
    THEN [some |-> TRUE, movies |-> c.movies]
    ELSE [some |-> FALSE, movies |-> <<>>]

\* LibraryCache::invalidate
CacheInvalidate(c) == [c EXCEPT !.last_update = NoInstant]

\* what a webhook payload says
Events == {"library.new", "media.play"}
MediaTypes == {"movie", "show", "episode"}

\* handle_plex_webhook: the payload spawns a background task
Spawns(event, hasMeta, type) ==
    IF event = "library.new"
    THEN IF hasMeta THEN type = "movie" ELSE FALSE
    ELSE FALSE

\* a job of the server: a webhook task or the GET /scan handler
NoJob == [pc |-> "free", entry |-> "none", item |-> 0, left |-> <<>>,
          spawned |-> 0, waited |-> FALSE, detail |-> "-", r |-> NoRun,
          inval |-> "no"]

Jobs == {"scan", "task"}

NoGet == [pc |-> "idle", list |-> <<>>, stale |-> FALSE]

NoPost == [event |-> "-", type |-> "-", meta |-> FALSE, spawned |-> FALSE]

\* the server once main() is listening
SrvUp == [phase |-> "on", now |-> 0, cache |-> CacheNew,
          jobs |-> [k \in Jobs |-> NoJob], get |-> NoGet, post |-> NoPost,
          cacheStale |-> FALSE, served |-> "-"]

\* the variables the server model leaves alone
offServer == <<cmd, run, results, last, img>>

\* faulty variant: the task asks for the item detail at once
SleepNone(spawned) == spawned

\* tokio::time::sleep(10 s): the earliest instant the task goes on
SleepUntil(spawned) == spawned + SLEEP_SECS

\* tokio::spawn(process_single_movie_by_id(rating_key))
NewTask(i, now) ==
    [NoJob EXCEPT !.pc = "sleep", !.entry = "webhook", !.item = i, !.spawned = now]

\* POST /webhook: the handler reads the payload, spawns or not, and returns
WebhookPost(event, hasMeta, type, i) ==
    /\ srv.phase = "on"
    /\ LET spawn == Spawns(event, hasMeta, type)
       IN  /\ spawn => \A k \in Jobs : srv.jobs[k].pc = "free"
           /\ srv' = [srv EXCEPT
                 !.post = [event |-> event, type |-> type, meta |-> hasMeta,
                           spawned |-> spawn],
                 !.jobs = IF spawn
                          THEN [@ EXCEPT !["task"] = NewTask(i, srv.now)]
                          ELSE @]
    /\ UNCHANGED <<labelled, offServer>>

\* GET /scan: get_library_items has answered
ScanStart(ok) ==
    /\ srv.phase = "on"
    /\ \A k \in Jobs : srv.jobs[k].pc = "free"
    /\ srv' = IF ok
              THEN [srv EXCEPT !.jobs["scan"] =
                      [NoJob EXCEPT !.pc = "detail", !.entry = "httpScan",
                                    !.item = Head(SeqOf(Items)),
                                    !.left = Tail(SeqOf(Items))]]
              ELSE srv
    /\ UNCHANGED <<labelled, offServer>>

\* the sleep of a webhook task is over: it requests the item detail
JobWake(k) ==
    /\ srv.phase = "on"
    /\ srv.jobs[k].pc = "sleep"
    /\ srv.now >= SleepUntil(srv.jobs[k].spawned)
    /\ srv' = [srv EXCEPT !.jobs[k].pc = "detail", !.jobs[k].spawned = 0,
                          !.jobs[k].waited =
                              (srv.now >= srv.jobs[k].spawned + SLEEP_SECS)]
    /\ UNCHANGED <<labelled, offServer>>

\* the scan loop goes to its next item, or leaves the loop
NextItem(j) ==
    IF j.left = <<>>
    THEN [j EXCEPT !.pc = "ret"]
    ELSE [j EXCEPT !.pc = "detail", !.item = Head(j.left), !.left = Tail(j.left),
                   !.r = NoRun, !.detail = "-"]

\* the pipeline of job j has returned, or was not called
Returned(j) ==
    IF j.entry = "httpScan" THEN NextItem(j)
    ELSE IF j.r.outcome = "error" THEN [j EXCEPT !.pc = "done"]
    ELSE [j EXCEPT !.pc = "ret"]

\* job j with its run moved to r2
JobAfter(j, r2) ==
    LET j2 == [j EXCEPT !.r = r2]
    IN  IF r2.pc = "done" THEN Returned(j2) ELSE [j2 EXCEPT !.pc = "run"]

\* get_item_details has answered: label test (GET /scan only), then the
\* pipeline up to its first request
JobDetail(k) ==
    /\ srv.phase = "on"
    /\ srv.jobs[k].pc = "detail"
    /\ LET j == srv.jobs[k]
           r0 == [NoRun EXCEPT !.snap = labelled[j.item]]
       IN  \/ srv' = [srv EXCEPT !.jobs[k] =
                        IF j.entry = "httpScan"
                        THEN NextItem([j EXCEPT !.detail = "fail"])
                        ELSE [j EXCEPT !.detail = "fail", !.pc = "done"]]
           \/ \E meta \in Metas :
                srv' = [srv EXCEPT !.jobs[k] =
                          JobAfter([j EXCEPT !.detail = "ok"],
                             IF SeqLabelCheck(j.entry, FALSE, r0.snap)
                             THEN Done(r0, "skip")
                             ELSE AfterBegin("server", r0,
                                             TmdbIdOpt("server", meta)))]
    /\ UNCHANGED <<labelled, offServer>>

\* job k is inside process_movie_logic, waiting at request pc
InPipeline(k, pc) ==
    /\ srv.phase = "on"
    /\ srv.jobs[k].pc = "run"
    /\ srv.jobs[k].r.pc = pc

JobLookup(k) ==
    /\ InPipeline(k, "lookup")
    /\ \E t, s \in TmdbResponses :
          srv' = [srv EXCEPT !.jobs[k] =
                    JobAfter(@, AfterLookup("server", srv.jobs[k].r, t, s))]
    /\ UNCHANGED <<labelled, offServer>>

JobDownload(k) ==
    /\ InPipeline(k, "download")
    /\ \E d \in {"ok", "fail", "asset"} :
          srv' = [srv EXCEPT !.jobs[k] =
                    JobAfter(@, AfterDownload("server", srv.jobs[k].r, d))]
    /\ UNCHANGED <<labelled, offServer>>

\* upload_poster has answered; from a successful upload on, a list fetched
\* earlier does not show the item as the media server holds it
JobUpload(k) ==
    /\ InPipeline(k, "upload")
    /\ \E u \in {"ok", "fail"} :
          srv' = [srv EXCEPT
                    !.jobs[k] = JobAfter(@, AfterUpload("server", srv.jobs[k].r, u)),
                    !.cacheStale = @ \/ (u = "ok"),
                    !.get.stale = @ \/ (u = "ok" /\ srv.get.pc = "update")]
    /\ UNCHANGED <<labelled, offServer>>

JobLabel(k) ==
    /\ InPipeline(k, "label")
    /\ \E l \in {"ok", "fail"} :
          /\ srv' = [srv EXCEPT !.jobs[k] =
                       JobAfter(@, AfterLabel("server", srv.jobs[k].r, l))]
          /\ labelled' = ServerLabel(labelled, srv.jobs[k].item, l)
    /\ UNCHANGED offServer

\* the job has the cache lock: cache.invalidate(), then the task ends or
\* the scan handler responds; inval tells whether a valid cache was dropped
JobReturn(k) ==
    /\ srv.phase = "on"
    /\ srv.jobs[k].pc = "ret"
    /\ srv' = [srv EXCEPT !.cache = CacheInvalidate(@),
                          !.jobs[k].inval =
                              IF IsValid(srv.cache, srv.now) THEN "dropped"
                              ELSE "noop",
                          !.jobs[k].pc = "done"]
    /\ UNCHANGED <<labelled, offServer>>

\* the task or the handler is gone
JobEnd(k) ==
    /\ srv.phase = "on"
    /\ srv.jobs[k].pc = "done"
    /\ srv' = [srv EXCEPT !.jobs[k] = NoJob]
    /\ UNCHANGED <<labelled, offServer>>

\* GET /api/library: cache.get() under the lock; a hit is served at once
GetBegin ==
    /\ srv.phase = "on"
    /\ srv.get.pc = "idle"
    /\ srv' = IF CacheGet(srv.cache, srv.now).some
              THEN [srv EXCEPT !.served = IF srv.cacheStale THEN "stale" ELSE "hit"]
              ELSE [srv EXCEPT !.served = "-", !.get.pc = "fetch"]
    /\ UNCHANGED <<labelled, offServer>>

\* get_library_items_with_labels has answered
GetFetched(ok) ==
    /\ srv.phase = "on"
    /\ srv.get.pc = "fetch"
    /\ srv' = IF ok
              THEN [srv EXCEPT !.get = [pc |-> "update", list |-> labelled,
                                        stale |-> FALSE]]
              ELSE [srv EXCEPT !.get = NoGet]
    /\ UNCHANGED <<labelled, offServer>>

\* the handler has the cache lock again: cache.update(movies), response
GetUpdate ==
    /\ srv.phase = "on"
    /\ srv.get.pc = "update"
    /\ srv' = [srv EXCEPT !.cache = CacheUpdate(@, srv.get.list, srv.now),
                          !.cacheStale = srv.get.stale,
                          !.get = NoGet]
    /\ UNCHANGED <<labelled, offServer>>

\* d seconds pass, up to instant cap
Tick(d, cap) ==
    /\ srv.phase = "on"
    /\ srv.now + d <= cap
    /\ srv' = [srv EXCEPT !.now = @ + d]
    /\ UNCHANGED <<labelled, offServer>>

InitServer ==
    /\ labelled \in [Items -> BOOLEAN]
    /\ cmd = NoCmd
    /\ run = [i \in Items |-> NoRun]
    /\ results = [i \in {} |-> 0]
    /\ last = [i \in Items |-> NoLast]
    /\ srv = SrvUp
    /\ img = NoImg

NextServer ==
    \/ \E i \in Items : WebhookPost("library.new", TRUE, "movie", i)
    \/ \E ok \in BOOLEAN : ScanStart(ok)
    \/ \E k \in Jobs : JobWake(k)
    \/ \E k \in Jobs : JobDetail(k)
    \/ \E k \in Jobs : JobLookup(k)
    \/ \E k \in Jobs : JobDownload(k)
    \/ \E k \in Jobs : JobUpload(k)
    \/ \E k \in Jobs : JobLabel(k)
    \/ \E k \in Jobs : JobReturn(k)
    \/ \E k \in Jobs : JobEnd(k)
    \/ GetBegin
    \/ \E ok \in BOOLEAN : GetFetched(ok)
    \/ GetUpdate
    \/ Tick(SLEEP_SECS, MaxSrvClock)

SpecServer == InitServer /\ [][NextServer]_vars

\* SpecWebhook: every kind of payload, and the tasks only
NextWebhook ==
    \/ \E e \in Events, m \in BOOLEAN, t \in MediaTypes, i \in Items :
          WebhookPost(e, m, t, i)
    \/ \E k \in Jobs : JobWake(k)
    \/ \E k \in Jobs : JobDetail(k)
    \/ \E k \in Jobs : JobLookup(k)
    \/ \E k \in Jobs : JobDownload(k)
    \/ \E k \in Jobs : JobUpload(k)
    \/ \E k \in Jobs : JobLabel(k)
    \/ \E k \in Jobs : JobReturn(k)
    \/ \E k \in Jobs : JobEnd(k)
    \/ Tick(SLEEP_SECS, MaxSrvClock)

SpecWebhook == InitServer /\ [][NextWebhook]_vars

---------------------------------------------------------------------------
(* Properties *)

\* the runs that have got past the driver
Started(i) == run[i].pc \notin {"none", "queued"}

Finished(i) == run[i].pc = "done"

\* poster uploads requested for item i by the previous run and the current one
TotalUploads(i) == last[i].uploads + (IF run[i].upReq THEN 1 ELSE 0)

\* the previous run of item i was a force=false run that returned success
FirstRunSucceeded(i) == last[i].outcome = "success" /\ ~last[i].force

\* C1 as stated: whenever a force=false run of an item follows a force=false
\* run of the same item that returned success, it returns the skip outcome,
\* issues no upload and no label request, and one upload was made in total.
C1_AsStated ==
    \A i \in Items :
        (Finished(i) /\ cmd.entry \in CliEntries /\ ~cmd.force /\ FirstRunSucceeded(i))
        => /\ run[i].outcome = "skip"
           /\ ~run[i].upReq /\ ~run[i].lblReq
           /\ TotalUploads(i) = 1

\* C1 (amended): at every entry point that tests the label (all but the
\* webhook task), a force=false run that follows a successful force=false run
\* whose label request the media server accepted returns the skip outcome,
\* issues no upload and no label request, and one upload was made in total.
C1_SecondRunSkips ==
    \A i \in Items :
        (/\ Finished(i) /\ cmd.entry # "webhook" /\ ~cmd.force
         /\ FirstRunSucceeded(i) /\ last[i].marked)
        => /\ run[i].outcome = "skip"
           /\ ~run[i].upReq /\ ~run[i].lblReq
           /\ TotalUploads(i) = 1

C1_Witness ==
    \E i \in Items :
        /\ Finished(i) /\ cmd.entry \in CliEntries /\ ~cmd.force
        /\ FirstRunSucceeded(i) /\ last[i].marked
        /\ run[i].outcome = "skip" /\ TotalUploads(i) = 1

\* C2: a run with force=true never returns the skip outcome, labelled item or
\* not; when it succeeds it has uploaded the poster and requested the label
\* again, so two successful forced runs in a row make two uploads; a label
\* present before the run is present after it, and so is one the media
\* server accepted during the run.
C2_ForceReprocesses ==
    \A i \in Items :
        (Finished(i) /\ cmd.force)
        => /\ run[i].outcome # "skip"
           /\ (run[i].outcome = "success" => run[i].upReq /\ run[i].lblReq)
           /\ (/\ run[i].outcome = "success"
               /\ last[i].outcome = "success" /\ last[i].force)
              => TotalUploads(i) = 2
           /\ (run[i].snap => labelled[i])
           /\ (run[i].lbl = "ok" => labelled[i])

C2_Witness ==
    \E i \in Items :
        /\ Finished(i) /\ cmd.force /\ run[i].snap
        /\ last[i].outcome = "success" /\ last[i].force
        /\ run[i].outcome = "success" /\ TotalUploads(i) = 2 /\ labelled[i]

\* the requests a run has issued towards the media server
NoRequests(i) == ~run[i].upReq /\ ~run[i].lblReq

\* C3: in every run a label request is issued only once the poster upload of
\* that run has returned success; a run that ends without a successful upload
\* (a compositing or encoding failure, a failed upload) has issued no label
\* request and leaves the item's label as it found it.
C3_LabelOnlyAfterUpload ==
    \A i \in Items :
        /\ run[i].lblReq => (run[i].upReq /\ run[i].up = "ok")
        /\ (Finished(i) /\ run[i].up # "ok")
           => (~run[i].lblReq /\ run[i].lbl = "-" /\ labelled[i] = run[i].snap)

C3_Witness ==
    \E i \in Items :
        /\ Finished(i) /\ run[i].up = "fail" /\ ~run[i].snap
        /\ ~run[i].lblReq /\ ~labelled[i] /\ run[i].outcome = "error"

\* C4 as stated: at every entry point, a run without force of an item that
\* carries the label goes no further than the label test: its outcome is the
\* skip outcome and it issues no upload and no label request.
C4_AsStated ==
    \A i \in Items :
        (Started(i) /\ run[i].snap /\ ~cmd.force)
        => (run[i].outcome = "skip" /\ NoRequests(i))

\* the webhook task has uploaded a poster for an item that carried the label
C4_Witness ==
    \E i \in Items :
        /\ cmd.entry = "webhook" /\ Finished(i) /\ run[i].snap
        /\ run[i].outcome = "success" /\ run[i].upReq /\ run[i].lblReq

\* C5: a run whose upload succeeded returns the success outcome whatever the
\* answer to its label request; a failed label request never makes an error.
C5_LabelFailureNotFatal ==
    \A i \in Items :
        (Finished(i) /\ run[i].up = "ok")
        => (run[i].outcome = "success" /\ run[i].lbl \in {"ok", "fail"})

C5_Witness ==
    \E i \in Items :
        /\ Finished(i) /\ run[i].up = "ok" /\ run[i].lbl = "fail"
        /\ run[i].outcome = "success" /\ PipelineOf(cmd.entry) = "season"

NotStalled ==
    (cmd.phase = "running" /\ cmd.inflight = {} /\ cmd.next <= Len(cmd.batch))
    => CanPull(cmd)

\* a batch ends only when every input item has run to an outcome, and it
\* then holds exactly one result per input item; no result is delivered
\* twice and the driver is never stuck
OneResultPerItem ==
    /\ cmd.phase = "done"
       => \A k \in 1..Len(cmd.batch) :
             /\ Finished(cmd.batch[k])
             /\ results[cmd.batch[k]] = 1
    /\ cmd.phase \in {"running", "done"}
       => /\ DOMAIN results = {cmd.batch[k] : k \in 1..Len(cmd.batch)}
          /\ \A i \in DOMAIN results :
                results[i] = (IF Finished(i) THEN 1 ELSE 0)
    /\ NotStalled

\* C8: whatever the outcomes of its items, errors included, a batch that has
\* started ends, and it ends only with exactly one result for every input
\* item, each item having run to its outcome.
C8_BatchCompletes ==
    /\ []OneResultPerItem
    /\ (cmd.phase = "running") ~> (cmd.phase = "done")

C8_Witness ==
    /\ cmd.phase = "done" /\ Len(cmd.batch) >= 2
    /\ run[cmd.batch[1]].outcome = "error"
    /\ run[cmd.batch[2]].outcome = "success"
    /\ \A k \in 1..Len(cmd.batch) : results[cmd.batch[k]] = 1

\* the --parallel value clamped to [1, MAX_CONCURRENCY]
Clamp(p) == IF p < 1 THEN 1 ELSE IF p > MAX_CONCURRENCY THEN MAX_CONCURRENCY ELSE p

\* C9: at every moment of a scan the number of pipelines in flight is at
\* most the --parallel value clamped to [1, 10]; the driver accepts a new
\* item exactly when a driver given the clamped value would; it is never
\* stuck.
C9_InFlightBounded ==
    /\ Cardinality(cmd.inflight) <= Clamp(cmd.parallel)
    /\ CanPull(cmd) = CanPull([cmd EXCEPT !.conc = Clamp(cmd.parallel)])
    /\ NotStalled

C9_Witness ==
    /\ cmd.parallel > MAX_CONCURRENCY
    /\ Cardinality(cmd.inflight) = MAX_CONCURRENCY
    /\ cmd.next <= Len(cmd.batch)
    /\ ~CanPull(cmd)

\* a --parallel value of 0 runs one pipeline at a time
C9_ZeroWitness ==
    /\ cmd.parallel = 0
    /\ Cardinality(cmd.inflight) = 1
    /\ cmd.next <= Len(cmd.batch)

---------------------------------------------------------------------------
(* One iteration of the sequential scan loop, run to its end on given      *)
(* answers: id the external-id step, t and s the two lookups, d the        *)
(* download and compositing, u the upload, l the label request             *)

SeqRunWith(entry, force, snap, hasId, t, s, d, u, l) ==
    LET kind == PipelineOf(entry)
        r0 == [NoRun EXCEPT !.snap = snap]
    IN  IF SeqLabelCheck(entry, force, snap) THEN Done(r0, "skip")
        ELSE LET r1 == AfterBegin(kind, r0, hasId)
             IN  IF r1.pc = "done" THEN r1
        ELSE LET r2 == AfterLookup(kind, r1, t, s)
             IN  IF r2.pc = "done" THEN r2
        ELSE LET r3 == AfterDownload(kind, r2, d)
             IN  IF r3.pc = "done" THEN r3
        ELSE LET r4 == AfterUpload(kind, r3, u)
             IN  IF r4.pc = "done" THEN r4
        ELSE AfterLabel(kind, r4, l)

\* what a run shows to the outside: its outcome and the requests it issued
Observed(r) == [outcome |-> r.outcome, upReq |-> r.upReq, lblReq |-> r.lblReq]

\* the lookup answers that agree with what run r recorded of its lookup
LookupsOf(kind, r) ==
    {ts \in TmdbResponses \X TmdbResponses :
        r.look = "-" \/ LookCause(kind, ts[1], ts[2]) = r.look}

\* C10: every run finished by a parallel dispatcher has the outcome, the
\* upload request and the label request that one iteration of the sequential
\* scan loop produces for the same item on the same answers of the media
\* server and the metadata service; with one result per item (C8) the
\* multisets of outcomes and the sets of requests of the two drivers agree.
C10_ParallelAsSequential ==
    \A i \in Items :
        (Finished(i) /\ IsParallel(cmd.conc))
        => \A ts \in LookupsOf(PipelineOf(cmd.entry), run[i]) :
              Observed(run[i]) =
                 Observed(SeqRunWith(cmd.entry, cmd.force, run[i].snap,
                                     run[i].id = "some", ts[1], ts[2],
                                     run[i].dl, run[i].up, run[i].lbl))

C10_Witness ==
    /\ IsParallel(cmd.conc) /\ cmd.phase = "done" /\ Len(cmd.batch) >= 2
    /\ cmd.force /\ run[cmd.batch[1]].snap
    /\ run[cmd.batch[1]].outcome = "success"
    /\ run[cmd.batch[2]].outcome = "error"

---------------------------------------------------------------------------
(* SpecCache: the operations of LibraryCache in any order, the clock       *)
(* moving by steps around the cache duration.  Beside the cache the state  *)
(* keeps what the operations should amount to: the seconds passed since    *)
(* the last update (none after an invalidate) and the list it stored.      *)

NoAge == [some |-> FALSE, secs |-> 0]

NoGot == [asked |-> FALSE, some |-> FALSE, movies |-> <<>>,
          fresh |-> FALSE, list |-> <<>>]

CacheUp == [phase |-> "cache", now |-> 0, cache |-> CacheNew,
            age |-> NoAge, list |-> <<>>, got |-> NoGot]

\* seconds since the last update are fewer than the cache duration
Fresh(age) == age.some /\ age.secs < CACHE_TTL

CacheTicks == {CACHE_TTL - 1, CACHE_TTL, CACHE_TTL + 1}

OpUpdate(movies) ==
    /\ srv.phase = "cache"
    /\ srv' = [srv EXCEPT !.cache = CacheUpdate(@, movies, srv.now),
                          !.age = [some |-> TRUE, secs |-> 0],
                          !.list = movies]
    /\ UNCHANGED <<labelled, offServer>>

OpInvalidate ==
    /\ srv.phase = "cache"
    /\ srv' = [srv EXCEPT !.cache = CacheInvalidate(@), !.age = NoAge]
    /\ UNCHANGED <<labelled, offServer>>

OpGet ==
    /\ srv.phase = "cache"
    /\ LET g == CacheGet(srv.cache, srv.now)
       IN  srv' = [srv EXCEPT !.got =
                     [asked |-> TRUE, some |-> g.some, movies |-> g.movies,
                      fresh |-> Fresh(srv.age), list |-> srv.list]]
    /\ UNCHANGED <<labelled, offServer>>

OpTick(d) ==
    /\ srv.phase = "cache"
    /\ srv.now + d <= MaxCacheClock
    /\ srv' = [srv EXCEPT !.now = @ + d,
                          !.age = IF @.some THEN [@ EXCEPT !.secs = @ + d] ELSE @]
    /\ UNCHANGED <<labelled, offServer>>

InitCache ==
    /\ labelled = [i \in Items |-> FALSE]
    /\ cmd = NoCmd
    /\ run = [i \in Items |-> NoRun]
    /\ results = [i \in {} |-> 0]
    /\ last = [i \in Items |-> NoLast]
    /\ srv = CacheUp
    /\ img = NoImg

NextCache ==
    \/ \E movies \in [Items -> BOOLEAN] : OpUpdate(movies)
    \/ OpInvalidate
    \/ OpGet
    \/ \E d \in CacheTicks : OpTick(d)

SpecCache == InitCache /\ [][NextCache]_vars

---------------------------------------------------------------------------
(* Properties of the server *)

TheTask == srv.jobs["task"]

\* C11 as stated: a webhook payload spawns a background task exactly when
\* its event is library.new and its metadata type is movie or show.
C11_AsStated ==
    (srv.phase = "on" /\ srv.post.event # "-")
    => (srv.post.spawned
          = (/\ srv.post.event = "library.new" /\ srv.post.meta
             /\ srv.post.type \in {"movie", "show"}))

\* a library.new payload for a show has been handled and no task exists
C11_Witness ==
    /\ srv.phase = "on"
    /\ srv.post.event = "library.new" /\ srv.post.meta /\ srv.post.type = "show"
    /\ ~srv.post.spawned
    /\ TheTask.pc = "free"

\* C12: the handler's step leaves the spawned task asleep, with no request
\* made; the task requests the item detail only once 10 seconds have passed
\* since it was spawned; its pipeline starts only after the detail request
\* succeeded; a failed detail request ends the task with no upload request,
\* no label request and the cache untouched.
C12_SleepThenDetailThenPipeline ==
    srv.phase = "on" =>
        /\ TheTask.pc = "sleep"
           => (TheTask.detail = "-" /\ TheTask.r = NoRun /\ TheTask.inval = "no")
        /\ TheTask.pc \notin {"free", "sleep"} => TheTask.waited
        /\ TheTask.r # NoRun => TheTask.detail = "ok"
        /\ TheTask.detail = "fail"
           => (TheTask.pc = "done" /\ TheTask.r = NoRun /\ TheTask.inval = "no")

C12_Witness ==
    /\ srv.phase = "on"
    /\ TheTask.pc = "done" /\ TheTask.detail = "fail" /\ TheTask.waited
    /\ TheTask.inval = "no"

\* C13 as stated: a webhook task drops the cache only when its pipeline run
\* uploaded the poster; a run that ends without a successful upload leaves
\* the cache as it was.
C13_AsStated ==
    (srv.phase = "on" /\ TheTask.pc = "done" /\ TheTask.r.up # "ok")
    => TheTask.inval # "dropped"

\* a task whose run found no poster has dropped a valid cache
C13_Witness ==
    /\ srv.phase = "on"
    /\ TheTask.pc = "done" /\ TheTask.r.outcome = "soft" /\ ~TheTask.r.upReq
    /\ TheTask.inval = "dropped"
    /\ ~IsValid(srv.cache, srv.now)

\* C14 as stated: GET /api/library never serves from the cache a list that
\* was fetched before a poster upload of the server succeeded.
C14_AsStated == srv.phase = "on" => srv.served # "stale"

\* the cached list is served while the scan that uploaded is still running
C14_Witness ==
    /\ srv.phase = "on"
    /\ srv.served = "stale"
    /\ srv.jobs["scan"].pc \in {"detail", "run"}

\* C15: in every state of the cache is_valid holds exactly when an update
\* has been made, no invalidate since, and fewer than 300 seconds have
\* passed since that update; get returned the stored list if the cache was
\* valid and nothing otherwise.
C15_ValidIffFresh ==
    srv.phase = "cache" =>
        /\ IsValid(srv.cache, srv.now) = Fresh(srv.age)
        /\ srv.got.asked
           => /\ srv.got.some = srv.got.fresh
              /\ srv.got.some => srv.got.movies = srv.got.list

\* get has returned nothing 300 seconds after an update
C15_Witness ==
    /\ srv.phase = "cache"
    /\ srv.got.asked /\ ~srv.got.some
    /\ srv.age.some /\ srv.age.secs = CACHE_TTL
    /\ ~IsValid(srv.cache, srv.now)
---------------------------------------------------------------------------
(* Poster compositing (processor.rs, main.rs, image_ops.rs, plex.rs): the  *)
(* layers put on a downloaded poster, stage by stage, by the four          *)
(* pipelines: "movie", "show" and "season" of processor.rs and "server",   *)
(* the movie pipeline of main.rs.  A stage draws its layer, leaves the     *)
(* poster as it was (file absent, nothing to draw) or fails (file does not *)
(* decode).                                                                *)

MaxDays == 31

SECS_PER_DAY == 86400
MOVIE_DAYS == 7
SHOW_DAYS == 30

Kinds == {"movie", "show", "season", "server"}

\* process_show and process_season are handed the status of the show
HasStatus(kind) == kind \in {"show", "season"}

NoStatus == [some |-> FALSE, text |-> ""]

SomeStatus(text) == [some |-> TRUE, text |-> text]

StatusTexts == {"Returning Series", "Ended", "Canceled", "In Production",
                "ENDED", "cancelled", "Planned", ""}

ToLowercase(s) ==
    CASE s = "Returning Series" -> "returning series"
      [] s = "Ended" -> "ended"
      [] s = "ENDED" -> "ended"
      [] s = "Canceled" -> "canceled"
      [] s = "In Production" -> "in production"
      [] s = "Planned" -> "planned"
      [] s = "4K" -> "4k"
      [] s = "Ultra HD" -> "ultra hd"
      [] s = "1080P" -> "1080p"
      [] s = "FHD" -> "fhd"
      [] s = "SD" -> "sd"
      [] s = "Blade Runner" -> "blade runner"
      [] s = "Director's Cut" -> "director's cut"
      [] s = "Director Cut" -> "director cut"
      [] s = "EXTENDED" -> "extended"
      [] s = "Remastered" -> "remastered"
      [] s = "Uncut" -> "uncut"
      [] s = "IMAX" -> "imax"
      [] s = "DoVi" -> "dovi"
      [] s = "Dolby Vision" -> "dolby vision"
      [] s = "HDR10+" -> "hdr10+"
      [] s = "HDR10" -> "hdr10"
      [] s = "HDR" -> "hdr"
      [] s = "Atmos" -> "atmos"
      [] s = "TrueHD" -> "truehd"
      [] s = "DTS:X" -> "dts:x"
      [] s = "EAC3" -> "eac3"
      [] s = "DTS" -> "dts"
      [] s = "Abyss" -> "abyss"
      [] s = "ABYSS" -> "abyss"
      [] s = "Kingsman The Golden Circle" -> "kingsman the golden circle"
      [] s = "Heat" -> "heat"
      [] OTHER -> s

GetStatusFilenameCased(status) ==
    CASE status \in {"returning series", "returning"} -> "returning_border.png"
      [] status \in {"canceled", "cancelled"} -> "cancelled_full.png"
      [] status = "ended" -> "ended_border.png"
      [] status \in {"in production", "airing"} -> "airing_border.png"
      [] OTHER -> "airing_border.png"

GetStatusFilename(status) ==
    LET l == ToLowercase(status)
    IN  CASE l \in {"returning series", "returning"} -> "returning_border.png"
          [] l \in {"canceled", "cancelled"} -> "cancelled_full.png"
          [] l = "ended" -> "ended_border.png"
          [] l \in {"in production", "airing"} -> "airing_border.png"
          [] OTHER -> "airing_border.png"

\* added_at against the clock of this host: absent, secs behind it, or
\* secs ahead of it
NoAdded == [some |-> FALSE, ahead |-> FALSE, secs |-> 0]

AddedAgo(secs) == [some |-> TRUE, ahead |-> FALSE, secs |-> secs]

AddedAhead(secs) == [some |-> TRUE, ahead |-> TRUE, secs |-> secs]

DaysAgo(secs) == secs \div SECS_PER_DAY

WindowDays(kind) == IF kind \in {"movie", "server"} THEN MOVIE_DAYS ELSE SHOW_DAYS

\* is_recently_added: the answers a build can give.  now - added_at on
\* unsigned 64-bit integers with added_at ahead of now panics where
\* overflow is checked and wraps to more than 2^63 seconds where it is not.
IsRecentlyAdded(kind, added) ==
    IF ~added.some THEN {"no"}
    ELSE IF added.ahead /\ added.secs > 0 THEN {"panic", "no"}
    ELSE IF DaysAgo(added.secs) <= WindowDays(kind) THEN {"yes"}
    ELSE {"no"}

\* files of the overlays directory
AtRoot(file) == [dir |-> "", file |-> file]

InStatus(file) == [dir |-> "Status", file |-> file]

INNER_GLOW == AtRoot("overlay-innerglow.png")

RECENTLY_ADDED == "recently_added.png"

BorderFiles == {INNER_GLOW, AtRoot(RECENTLY_ADDED),
                InStatus("returning_border.png"), InStatus("cancelled_full.png"),
                InStatus("ended_border.png"), InStatus("airing_border.png")}

Layer(stage, path) == [stage |-> stage, dir |-> path.dir, file |-> path.file]

Drawn(layers) == [ok |-> TRUE, layers |-> layers]

Failed(layers) == [ok |-> FALSE, layers |-> layers]

AddInnerGlowBorder(layers, assets, decodes) ==
    IF INNER_GLOW \notin assets THEN Drawn(layers)
    ELSE IF ~decodes THEN Failed(layers)
    ELSE Drawn(Append(layers, Layer("border", INNER_GLOW)))

AddStatusBorderNoFallback(layers, assets, decodes, file) ==
    LET path == IF file = RECENTLY_ADDED THEN AtRoot(file) ELSE InStatus(file)
    IN  IF path \notin assets THEN Drawn(layers)
        ELSE IF ~decodes THEN Failed(layers)
        ELSE Drawn(Append(layers, Layer("border", path)))

AddStatusBorder(layers, assets, decodes, file) ==
    LET path == IF file = RECENTLY_ADDED THEN AtRoot(file) ELSE InStatus(file)
    IN  IF path \notin assets THEN AddInnerGlowBorder(layers, assets, decodes)
        ELSE IF ~decodes THEN Failed(layers)
        ELSE Drawn(Append(layers, Layer("border", path)))

\* the border function a pipeline calls and the file it names
GlowCall == [fn |-> "add_inner_glow_border", file |-> INNER_GLOW.file]

StatusCall(file) == [fn |-> "add_status_border", file |-> file]

\* whether the pipeline evaluates is_recently_added
AsksRecent(kind, status) ==
    \/ kind = "movie"
    \/ HasStatus(kind) /\ ~status.some

SelectBorderRecognisedOnly(kind, status, recent) ==
    IF kind = "server" THEN GlowCall
    ELSE IF /\ HasStatus(kind) /\ status.some
            /\ ToLowercase(status.text) \in
                 {"returning series", "canceled", "ended", "in production"}
         THEN StatusCall(GetStatusFilename(status.text))
    ELSE IF recent = "yes" THEN StatusCall(RECENTLY_ADDED)
    ELSE GlowCall

SelectBorder(kind, status, recent) ==
    IF kind = "server" THEN GlowCall
    ELSE IF HasStatus(kind) /\ status.some
         THEN StatusCall(GetStatusFilename(status.text))
    ELSE IF recent = "yes" THEN StatusCall(RECENTLY_ADDED)
    ELSE GlowCall

CallBorder(call, layers, assets, decodes) ==
    IF call.fn = "add_status_border"
    THEN AddStatusBorder(layers, assets, decodes, call.file)
    ELSE AddInnerGlowBorder(layers, assets, decodes)

\* compositing stages of a pipeline, in the order of its code
Stages(kind) ==
    CASE kind = "movie" ->
           <<"gradient", "title", "resolution", "edition", "codec",
             "audience", "border">>
      [] kind = "server" ->
           <<"gradient", "border", "title", "resolution", "edition",
             "codec", "audience">>
      [] OTHER -> <<"gradient", "title", "audience", "border">>

\* a stage whose error the pipeline hands on with `?`
Propagates(kind, stage) ==
    kind # "server" /\ stage \in {"gradient", "title", "border", "encode"}

StageOutcomes == {"drawn", "same", "err"}

Downloaded(kind, status, added, assets, decodes) ==
    [stage |-> "compositing", kind |-> kind, status |-> status,
     added |-> added, assets |-> assets, decodes |-> decodes,
     todo |-> Stages(kind), done |-> <<"download">>, layers |-> <<>>,
     recent |-> "unused", call |-> [fn |-> "", file |-> ""]]

\* the poster after a stage other than the border has answered o
AfterStage(p, o) ==
    LET stage == Head(p.todo)
        q == [p EXCEPT !.todo = Tail(@), !.done = Append(@, stage)]
    IN  CASE o = "drawn" ->
               [q EXCEPT !.layers = Append(@, Layer(stage, AtRoot(stage)))]
          [] o = "same" -> q
          [] OTHER -> IF Propagates(p.kind, stage)
                      THEN [q EXCEPT !.stage = "failed"]
                      ELSE q

\* the poster after the border stage, is_recently_added answering recent
AfterBorder(p, recent) ==
    LET q == [p EXCEPT !.todo = Tail(@), !.done = Append(@, "border"),
                       !.recent = recent]
    IN  IF recent = "panic" THEN [q EXCEPT !.stage = "panicked"]
        ELSE LET call == SelectBorder(p.kind, p.status, recent)
                 r == CallBorder(call, p.layers, p.assets, p.decodes)
             IN  IF r.ok
                 THEN [q EXCEPT !.call = call, !.layers = r.layers]
                 ELSE IF Propagates(p.kind, "border")
                      THEN [q EXCEPT !.call = call, !.stage = "failed"]
                      ELSE [q EXCEPT !.call = call]

offImage == <<labelled, cmd, run, results, last, srv>>

Compositing(stage) ==
    /\ img.stage = "compositing"
    /\ img.todo # <<>>
    /\ Head(img.todo) = stage

DownloadImage(kind, status, added, assets, decodes, ok) ==
    /\ img = NoImg
    /\ img' = IF ok THEN Downloaded(kind, status, added, assets, decodes)
              ELSE [Downloaded(kind, status, added, assets, decodes)
                      EXCEPT !.stage = "skipped", !.done = <<>>]
    /\ UNCHANGED offImage

AddGradientMasks(o) ==
    /\ Compositing("gradient")
    /\ img' = AfterStage(img, o)
    /\ UNCHANGED offImage

AddMovieTitle(o) ==
    /\ Compositing("title")
    /\ img' = AfterStage(img, o)
    /\ UNCHANGED offImage

AddOverlay(stage, o) ==
    /\ stage \in {"resolution", "edition", "codec"}
    /\ Compositing(stage)
    /\ img' = AfterStage(img, o)
    /\ UNCHANGED offImage

AddOverlayBottomRight(o) ==
    /\ Compositing("audience")
    /\ img' = AfterStage(img, o)
    /\ UNCHANGED offImage

AddBorder ==
    /\ Compositing("border")
    /\ \E recent \in (IF AsksRecent(img.kind, img.status)
                      THEN IsRecentlyAdded(img.kind, img.added)
                      ELSE {"unused"}) :
          img' = AfterBorder(img, recent)
    /\ UNCHANGED offImage

\* write_to(.., Jpeg): `?` in processor.rs, unwrap() in main.rs
Encode(ok) ==
    /\ img.stage = "compositing"
    /\ img.todo = <<>>
    /\ img' = [img EXCEPT !.done = Append(@, "encode"),
                          !.stage = IF ok THEN "upload"
                                    ELSE IF Propagates(img.kind, "encode")
                                         THEN "failed" ELSE "panicked"]
    /\ UNCHANGED offImage

Idle ==
    /\ labelled = [i \in Items |-> FALSE]
    /\ cmd = NoCmd
    /\ run = [i \in Items |-> NoRun]
    /\ results = [i \in {} |-> 0]
    /\ last = [i \in Items |-> NoLast]
    /\ srv = NoSrv

StatusesOf(kind, texts) ==
    IF HasStatus(kind) THEN {NoStatus} \cup {SomeStatus(t) : t \in texts}
    ELSE {NoStatus}

(* SpecCompose: one poster through all the stages of its pipeline *)

ComposeAdded == {NoAdded, AddedAgo(0), AddedAgo((MOVIE_DAYS + 1) * SECS_PER_DAY),
                 AddedAgo((SHOW_DAYS + 1) * SECS_PER_DAY), AddedAhead(1)}

ComposeAssets == {BorderFiles, BorderFiles \ {INNER_GLOW}, {INNER_GLOW}, {}}

InitCompose == Idle /\ img = NoImg

NextCompose ==
    \/ \E kind \in Kinds, added \in ComposeAdded, assets \in ComposeAssets,
          decodes \in BOOLEAN, ok \in BOOLEAN :
          \E status \in StatusesOf(kind, {"Ended", "Planned"}) :
             DownloadImage(kind, status, added, assets, decodes, ok)
    \/ \E o \in StageOutcomes : AddGradientMasks(o)
    \/ \E o \in StageOutcomes : AddMovieTitle(o)
    \/ \E stage \in {"resolution", "edition", "codec"}, o \in StageOutcomes :
          AddOverlay(stage, o)
    \/ \E o \in StageOutcomes : AddOverlayBottomRight(o)
    \/ AddBorder
    \/ \E ok \in BOOLEAN : Encode(ok)

SpecCompose == InitCompose /\ [][NextCompose]_vars

(* SpecBorder: the border stage alone, on a poster no earlier stage has    *)
(* drawn on, over every age up to MaxDays days, every status text and      *)
(* every content of the overlays directory                                 *)

BorderAdded ==
    {NoAdded, AddedAhead(1)}
    \cup {AddedAgo(k * SECS_PER_DAY + r) :
            k \in 0..MaxDays, r \in {0, SECS_PER_DAY - 1}}

\* the poster as the border stage of its pipeline finds it
RECURSIVE BeforeBorder(_)
BeforeBorder(p) ==
    IF Head(p.todo) = "border" THEN p
    ELSE BeforeBorder(AfterStage(p, "same"))

InitBorder ==
    /\ Idle
    /\ \E kind \in Kinds, added \in BorderAdded, assets \in SUBSET BorderFiles,
          decodes \in BOOLEAN :
          \E status \in StatusesOf(kind, StatusTexts) :
             img = BeforeBorder(Downloaded(kind, status, added, assets, decodes))

NextBorder == AddBorder

SpecBorder == InitBorder /\ [][NextBorder]_vars

---------------------------------------------------------------------------
(* Properties of the compositing *)

\* the border stage of the pipeline has run to its end
BorderRan == img.stage \in {"compositing", "upload"} /\ img.call.fn # ""

BorderLayers == {i \in DOMAIN img.layers : img.layers[i].stage = "border"}

BorderRuns == {i \in DOMAIN img.done : img.done[i] = "border"}

\* the file the border call of the pipeline names, in the overlays directory
CalledPath ==
    IF img.call.fn = "add_status_border" /\ img.call.file # RECENTLY_ADDED
    THEN InStatus(img.call.file)
    ELSE AtRoot(img.call.file)

\* C16 as stated: a poster that reaches the upload step carries exactly
\* one border layer, in every pipeline.
C16_AsStated ==
    img.stage = "upload" => Cardinality(BorderLayers) = 1

\* C16, amended: a poster that reaches the upload step has been through
\* the border stage exactly once and carries at most one border layer;
\* it carries one exactly when the file the pipeline selected, or failing
\* that overlay-innerglow.png, exists and decodes, and none otherwise.
C16_AtMostOneBorder ==
    img.stage = "upload" =>
        /\ Cardinality(BorderRuns) = 1
        /\ Cardinality(BorderLayers) <= 1
        /\ Cardinality(BorderLayers) = 1
           <=> /\ CalledPath \in img.assets \/ INNER_GLOW \in img.assets
               /\ img.decodes
        /\ \A i \in BorderLayers :
              [dir |-> img.layers[i].dir, file |-> img.layers[i].file]
                 = IF CalledPath \in img.assets THEN CalledPath ELSE INNER_GLOW

\* a show with a status goes to upload without any border: no file of the
\* overlays directory is there
C16_Witness ==
    /\ img.stage = "upload"
    /\ img.kind = "show" /\ img.status.some
    /\ img.call.fn = "add_status_border"
    /\ BorderLayers = {}
    /\ Len(img.layers) = 3

Recognised == {"Returning Series", "Ended", "Canceled", "In Production"}

MatchingBorder(text) ==
    CASE text = "Returning Series" -> "returning_border.png"
      [] text = "Ended" -> "ended_border.png"
      [] text = "Canceled" -> "cancelled_full.png"
      [] text = "In Production" -> "airing_border.png"

\* C17: for a show or season whose status is one of the recognised values
\* the border stage asks for the matching status border whatever added_at
\* is (is_recently_added is not consulted), and draws it when the file is
\* there.
C17_StatusFirst ==
    (/\ img.stage # "none" /\ "border" \in {img.done[i] : i \in DOMAIN img.done}
     /\ HasStatus(img.kind) /\ img.status.some
     /\ img.status.text \in Recognised)
    => /\ img.recent = "unused"
       /\ img.call = StatusCall(MatchingBorder(img.status.text))
       /\ (InStatus(MatchingBorder(img.status.text)) \in img.assets /\ img.decodes)
          => img.layers =
               <<Layer("border", InStatus(MatchingBorder(img.status.text)))>>

\* an ended show added today gets the ended border, recently_added.png
\* being there too
C17_Witness ==
    /\ BorderRan
    /\ img.kind = "show" /\ img.status = SomeStatus("Ended")
    /\ img.added = AddedAgo(0)
    /\ AtRoot(RECENTLY_ADDED) \in img.assets
    /\ img.layers = <<Layer("border", InStatus("ended_border.png"))>>

FreshnessCall(days) ==
    IF img.added.some /\ ~img.added.ahead /\ DaysAgo(img.added.secs) <= days
    THEN StatusCall(RECENTLY_ADDED)
    ELSE GlowCall

IsStatusCall ==
    img.call.fn = "add_status_border" /\ img.call.file # RECENTLY_ADDED

\* C18 as stated: for a show or season a status border is selected only
\* for a status among the recognised ones; for any other status text the
\* border follows the freshness rule.
C18_AsStated ==
    (BorderRan /\ HasStatus(img.kind))
    => /\ IsStatusCall => img.status.some /\ img.status.text \in Recognised
       /\ (img.status.some /\ img.status.text \in {"Planned", ""})
          => img.call = FreshnessCall(SHOW_DAYS)

\* C18, amended: for a show or season a status border is selected exactly
\* when the service returned a status text, whatever the text: the
\* recognised ones select their file, any other text selects
\* airing_border.png; the freshness rule decides only without a status.
C18_AnyStatusSelects ==
    (BorderRan /\ HasStatus(img.kind))
    => /\ IsStatusCall <=> img.status.some
       /\ img.status.some
          => img.call.file =
               CASE img.status.text = "Returning Series" -> "returning_border.png"
                 [] img.status.text \in {"Ended", "ENDED"} -> "ended_border.png"
                 [] img.status.text \in {"Canceled", "cancelled"}
                      -> "cancelled_full.png"
                 [] OTHER -> "airing_border.png"
       /\ ~img.status.some => img.call = FreshnessCall(SHOW_DAYS)

\* a season of a show in status "Planned", added 31 days ago, gets the
\* airing border
C18_Witness ==
    /\ BorderRan
    /\ img.kind = "season" /\ img.status = SomeStatus("Planned")
    /\ img.added = AddedAgo((SHOW_DAYS + 1) * SECS_PER_DAY)
    /\ img.layers = <<Layer("border", InStatus("airing_border.png"))>>

\* added_at is a whole number of days behind the clock and no status
\* decides the border
WholeDays ==
    /\ BorderRan
    /\ ~img.status.some
    /\ img.added.some /\ ~img.added.ahead
    /\ img.added.secs % SECS_PER_DAY = 0

\* C19 as stated: without a status match an item added k days ago takes
\* the recently-added border iff k <= 7 (movie) or k <= 30 (show, season),
\* else the inner glow, in every pipeline, the server's included.
C19_AsStated ==
    WholeDays =>
        LET k == img.added.secs \div SECS_PER_DAY
            window == IF HasStatus(img.kind) THEN 30 ELSE 7
        IN  img.call = IF k <= window THEN StatusCall(RECENTLY_ADDED)
                       ELSE GlowCall

\* the server's pipeline draws the inner glow on a movie added today
C19_Witness ==
    /\ WholeDays
    /\ img.kind = "server" /\ img.added = AddedAgo(0)
    /\ AtRoot(RECENTLY_ADDED) \in img.assets
    /\ img.layers = <<Layer("border", INNER_GLOW)>>

\* C20 as stated: every movie pipeline runs download, gradient masks,
\* title, resolution, edition, codec, audience, border in this order, and
\* the border is the last layer before the JPEG encoding.
C20_AsStated ==
    (img.stage = "upload" /\ img.kind \in {"movie", "server"})
    => /\ img.done = <<"download", "gradient", "title", "resolution",
                       "edition", "codec", "audience", "border", "encode">>
       /\ \A i \in BorderLayers : i = Len(img.layers)

\* the server's pipeline uploads a poster whose title lies over its border
C20_Witness ==
    /\ img.stage = "upload" /\ img.kind = "server"
    /\ \E i, j \in DOMAIN img.layers :
          /\ i < j
          /\ img.layers[i].stage = "border"
          /\ img.layers[j].stage = "title"
---------------------------------------------------------------------------
(* The stage functions of image_ops.rs, each called once on a poster with  *)
(* the overlays directory holding any part of the files they look for.     *)

GRADIENT_TOP == [dir |-> "gradients", file |-> "gradient_top.png"]

GRADIENT_BOTTOM == [dir |-> "gradients", file |-> "gradient_bottom.png"]

TITLE_FONT == [dir |-> "fonts", file |-> "Colus-Regular.ttf"]

SCORE_FONT == [dir |-> "fonts", file |-> "AvenirNextLTPro-Bold.ttf"]

\* one badge file of each badge stage
BadgeOf(stage) ==
    CASE stage = "resolution" -> [dir |-> "media_info/resolution", file |-> "1080P.png"]
      [] stage = "edition" -> [dir |-> "media_info/edition", file |-> "IMAX.png"]
      [] stage = "codec" -> [dir |-> "media_info/codec", file |-> "HDR.png"]
      [] stage = "audience" ->
           [dir |-> "audience_score", file |-> "audience_score_high.png"]

\* the poster as downloaded
Poster == <<[stage |-> "download", dir |-> "", file |-> ""]>>

GradientMasks(layers, assets, decodes) ==
    LET top == IF GRADIENT_TOP \in assets
               THEN IF decodes THEN Drawn(Append(layers, Layer("gradient", GRADIENT_TOP)))
                    ELSE Failed(layers)
               ELSE Drawn(layers)
    IN  IF ~top.ok THEN top
        ELSE IF GRADIENT_BOTTOM \in assets
             THEN IF decodes
                  THEN Drawn(Append(top.layers, Layer("gradient", GRADIENT_BOTTOM)))
                  ELSE Failed(layers)
             ELSE top

MovieTitle(layers, assets, decodes) ==
    IF TITLE_FONT \notin assets THEN Drawn(layers)
    ELSE IF ~decodes THEN Failed(layers)
    ELSE Drawn(Append(layers, Layer("title", TITLE_FONT)))

\* faulty variant: a missing badge file is an error of the stage
OverlayStrict(layers, assets, decodes, stage) ==
    IF BadgeOf(stage) \notin assets \/ ~decodes THEN Failed(layers)
    ELSE Drawn(Append(layers, Layer(stage, BadgeOf(stage))))

Overlay(layers, assets, decodes, stage) ==
    IF BadgeOf(stage) \notin assets THEN Drawn(layers)
    ELSE IF ~decodes THEN Failed(layers)
    ELSE Drawn(Append(layers, Layer(stage, BadgeOf(stage))))

\* the badge, then the score over it when the font is there and loads
OverlayBottomRight(layers, assets, decodes, scored) ==
    IF BadgeOf("audience") \notin assets THEN Drawn(layers)
    ELSE IF ~decodes THEN Failed(layers)
    ELSE LET badged == Append(layers, Layer("audience", BadgeOf("audience")))
         IN  IF scored /\ SCORE_FONT \in assets
             THEN Drawn(Append(badged, Layer("score", SCORE_FONT)))
             ELSE Drawn(badged)

StageFns == {"add_gradient_masks", "add_movie_title", "add_overlay",
             "add_overlay_bottom_right", "add_status_border",
             "add_inner_glow_border"}

\* the stage of the pipeline a function is called for
StageOf(fn, stage) ==
    CASE fn = "add_gradient_masks" -> "gradient"
      [] fn = "add_movie_title" -> "title"
      [] fn = "add_overlay" -> stage
      [] fn = "add_overlay_bottom_right" -> "audience"
      [] OTHER -> "border"

\* the pipeline calls the function: main.rs never calls add_status_border,
\* shows and seasons have no top-left and no codec badge
Calls(kind, fn, stage) ==
    /\ kind = "server" => fn # "add_status_border"
    /\ fn = "add_overlay" => /\ stage \in {"resolution", "edition", "codec"}
                             /\ kind \in {"movie", "server"}
    /\ fn # "add_overlay" => stage = StageOf(fn, stage)

StageFiles == {GRADIENT_TOP, GRADIENT_BOTTOM, TITLE_FONT, SCORE_FONT,
               BadgeOf("resolution"), BadgeOf("audience"), INNER_GLOW,
               InStatus("ended_border.png")}

Called(kind, fn, stage, assets, decodes, scored, r) ==
    [stage |-> "called", kind |-> kind, fn |-> fn, at |-> stage,
     assets |-> assets, decodes |-> decodes, scored |-> scored,
     ok |-> r.ok, layers |-> r.layers,
     next |-> IF r.ok \/ ~Propagates(kind, StageOf(fn, stage))
              THEN "continues" ELSE "failed"]

CallGradientMasks(kind, assets, decodes) ==
    /\ img = NoImg
    /\ img' = Called(kind, "add_gradient_masks", "gradient", assets, decodes,
                     FALSE, GradientMasks(Poster, assets, decodes))
    /\ UNCHANGED offImage

CallMovieTitle(kind, assets, decodes) ==
    /\ img = NoImg
    /\ img' = Called(kind, "add_movie_title", "title", assets, decodes,
                     FALSE, MovieTitle(Poster, assets, decodes))
    /\ UNCHANGED offImage

CallOverlay(kind, stage, assets, decodes) ==
    /\ img = NoImg
    /\ Calls(kind, "add_overlay", stage)
    /\ img' = Called(kind, "add_overlay", stage, assets, decodes,
                     FALSE, Overlay(Poster, assets, decodes, stage))
    /\ UNCHANGED offImage

CallOverlayBottomRight(kind, assets, decodes, scored) ==
    /\ img = NoImg
    /\ img' = Called(kind, "add_overlay_bottom_right", "audience", assets,
                     decodes, scored,
                     OverlayBottomRight(Poster, assets, decodes, scored))
    /\ UNCHANGED offImage

CallStatusBorder(kind, assets, decodes) ==
    /\ img = NoImg
    /\ Calls(kind, "add_status_border", "border")
    /\ img' = Called(kind, "add_status_border", "border", assets, decodes,
                     FALSE,
                     AddStatusBorder(Poster, assets, decodes, "ended_border.png"))
    /\ UNCHANGED offImage

CallInnerGlowBorder(kind, assets, decodes) ==
    /\ img = NoImg
    /\ img' = Called(kind, "add_inner_glow_border", "border", assets, decodes,
                     FALSE, AddInnerGlowBorder(Poster, assets, decodes))
    /\ UNCHANGED offImage

InitStage == Idle /\ img = NoImg

NextStage ==
    /\ img = NoImg
    /\ \E kind \in Kinds, assets \in SUBSET StageFiles, decodes \in BOOLEAN :
       \/ CallGradientMasks(kind, assets, decodes)
       \/ CallMovieTitle(kind, assets, decodes)
       \/ \E stage \in {"resolution", "edition", "codec"} :
             CallOverlay(kind, stage, assets, decodes)
       \/ \E scored \in BOOLEAN :
             CallOverlayBottomRight(kind, assets, decodes, scored)
       \/ CallStatusBorder(kind, assets, decodes)
       \/ CallInnerGlowBorder(kind, assets, decodes)

SpecStage == InitStage /\ [][NextStage]_vars

---------------------------------------------------------------------------
(* Properties of the stage functions *)

\* the files a call looks for
FilesOf ==
    CASE img.fn = "add_gradient_masks" -> {GRADIENT_TOP, GRADIENT_BOTTOM}
      [] img.fn = "add_movie_title" -> {TITLE_FONT}
      [] img.fn = "add_overlay" -> {BadgeOf(img.at)}
      [] img.fn = "add_overlay_bottom_right" ->
           {BadgeOf("audience")} \cup (IF img.scored THEN {SCORE_FONT} ELSE {})
      [] img.fn = "add_status_border" -> {InStatus("ended_border.png")}
      [] OTHER -> {INNER_GLOW}

\* C21 as stated: a stage one of whose files is absent hands the poster
\* back as it was, nothing drawn in place of the absent file's layer, and
\* the pipeline goes on.
C21_AsStated ==
    (img.stage = "called" /\ FilesOf \ img.assets # {})
    => /\ img.ok /\ img.next = "continues"
       /\ img.layers = Poster

LayerFiles ==
    {[dir |-> img.layers[i].dir, file |-> img.layers[i].file] :
        i \in 2..Len(img.layers)}

\* C21, amended: a call whose every file is absent hands the poster back
\* as it was and the pipeline goes on; an absent file is never drawn.
\* Three stages still draw with a file absent: the gradient stage draws
\* the gradient that is there, the audience stage draws the badge without
\* the score when only the score font is absent, and add_status_border
\* draws overlay-innerglow.png in place of the absent border file.
C21_AbsentFile ==
    img.stage = "called" =>
        /\ FilesOf \cap img.assets = {}
           => IF img.fn = "add_status_border"
              THEN [ok |-> img.ok, layers |-> img.layers]
                     = AddInnerGlowBorder(Poster, img.assets, img.decodes)
              ELSE img.ok /\ img.next = "continues" /\ img.layers = Poster
        /\ img.ok => /\ SubSeq(img.layers, 1, 1) = Poster
                     /\ LayerFiles \subseteq img.assets
        /\ (img.fn \in {"add_movie_title", "add_overlay", "add_inner_glow_border"}
            /\ FilesOf \ img.assets # {})
           => img.ok /\ img.next = "continues" /\ img.layers = Poster
        /\ (img.fn = "add_overlay_bottom_right"
            /\ BadgeOf("audience") \notin img.assets)
           => img.ok /\ img.next = "continues" /\ img.layers = Poster
        /\ (img.ok /\ img.fn = "add_overlay_bottom_right"
            /\ BadgeOf("audience") \in img.assets)
           => BadgeOf("audience") \in LayerFiles
        /\ (img.ok /\ img.fn = "add_gradient_masks")
           => LayerFiles = FilesOf \cap img.assets
        /\ (img.ok /\ img.fn = "add_status_border"
            /\ InStatus("ended_border.png") \notin img.assets)
           => LayerFiles = {INNER_GLOW} \cap img.assets

\* add_status_border, its file absent, has drawn the inner glow
C21_Witness ==
    /\ img.stage = "called"
    /\ img.fn = "add_status_border"
    /\ InStatus("ended_border.png") \notin img.assets
    /\ img.layers = Append(Poster, Layer("border", INNER_GLOW))
    /\ img.next = "continues"
---------------------------------------------------------------------------
(* The source poster of a season (processor.rs process_season, tmdb.rs):   *)
(* what the metadata service holds for the season, and the URL the         *)
(* pipeline downloads.                                                     *)

MaxPosters == 2

IMAGE_BASE == "https://image.tmdb.org/t/p/original"

\* PosterImage: iso_639_1 "none" stands for an absent language
PosterImages ==
    {[file_path |-> "/t1.jpg", iso_639_1 |-> "xx", width |-> 2000,
      height |-> 3000, vote_average |-> 50],
     [file_path |-> "/t2.jpg", iso_639_1 |-> "none", width |-> 1000,
      height |-> 1500, vote_average |-> 80],
     [file_path |-> "/en.jpg", iso_639_1 |-> "en", width |-> 2000,
      height |-> 3000, vote_average |-> 90],
     [file_path |-> "/t4.jpg", iso_639_1 |-> "null", width |-> 2000,
      height |-> 3000, vote_average |-> 70]}

STANDARD_PATH == "/season.jpg"

\* answers of GET /tv/{id}/season/{n}
SeasonDetails == {"neterr", "http", "nopath", "path"}

\* answers of GET /tv/{id}/season/{n}/images
ImagesResponses == {"neterr", "http", "ok"}

NoUrl == [res |-> "none", base |-> "", path |-> ""]

ErrUrl == [res |-> "err", base |-> "", path |-> ""]

SomeUrl(path) == [res |-> "some", base |-> IMAGE_BASE, path |-> path]

IsTextless(p) == p.iso_639_1 \in {"xx", "null", "none"}

\* a sorts before b: larger area first, then higher vote
SortsBefore(a, b) ==
    \/ a.width * a.height > b.width * b.height
    \/ /\ a.width * a.height = b.width * b.height
       /\ a.vote_average > b.vote_average

\* first of the stable sort
First(candidates) ==
    candidates[CHOOSE i \in DOMAIN candidates :
                 /\ \A j \in DOMAIN candidates :
                       ~SortsBefore(candidates[j], candidates[i])
                 /\ \A j \in 1..(i - 1) :
                       SortsBefore(candidates[i], candidates[j])]

GetSeasonPoster(details) ==
    CASE details = "neterr" -> ErrUrl
      [] details = "http" -> NoUrl
      [] details = "path" -> SomeUrl(STANDARD_PATH)
      [] OTHER -> NoUrl

GetSeasonTextlessPoster(images, posters, details) ==
    CASE images = "neterr" -> ErrUrl
      [] images = "http" -> GetSeasonPoster(details)
      [] OTHER ->
           LET candidates == SelectSeq(posters, IsTextless)
           IN  IF candidates # <<>> THEN SomeUrl(First(candidates).file_path)
               ELSE GetSeasonPoster(details)

\* the call process_season makes for its source poster
SeasonPosterUrl(images, posters, details) == GetSeasonPoster(details)

Season(images, posters, details) ==
    [stage |-> "season", images |-> images, posters |-> posters,
     details |-> details, asked |-> FALSE, source |-> NoUrl]

FetchSeasonPoster ==
    /\ img.stage = "season"
    /\ ~img.asked
    /\ img' = [img EXCEPT !.asked = TRUE,
                          !.source = SeasonPosterUrl(img.images, img.posters,
                                                     img.details)]
    /\ UNCHANGED offImage

PosterLists == UNION {[1..n -> PosterImages] : n \in 0..MaxPosters}

InitSeason ==
    /\ Idle
    /\ \E images \in ImagesResponses, posters \in PosterLists,
          details \in SeasonDetails :
          /\ images # "ok" => posters = <<>>
          /\ img = Season(images, posters, details)

NextSeason == FetchSeasonPoster

SpecSeason == InitSeason /\ [][NextSeason]_vars

---------------------------------------------------------------------------
(* Properties of the season source *)

TextlessOnService ==
    IF img.images = "ok" THEN SelectSeq(img.posters, IsTextless) ELSE <<>>

\* C22 as stated: the source poster of a season is the best textless
\* season image whenever the service has one, and the standard poster_path
\* only when it has none.
C22_AsStated ==
    (img.stage = "season" /\ img.asked)
    => /\ TextlessOnService # <<>>
          => img.source = SomeUrl(First(TextlessOnService).file_path)
       /\ img.source = SomeUrl(STANDARD_PATH) => TextlessOnService = <<>>

\* the service holds two textless images of the season and the pipeline
\* downloads the standard poster
C22_Witness ==
    /\ img.stage = "season" /\ img.asked
    /\ Len(TextlessOnService) = 2
    /\ img.source = SomeUrl(STANDARD_PATH)
    /\ GetSeasonTextlessPoster(img.images, img.posters, img.details) # img.source
---------------------------------------------------------------------------
(* Badge mapping tables (processor.rs; main.rs holds the same functions).  *)
(* A title is a sequence of pieces of text, lowercased piece by piece; a   *)
(* keyword is contained in it when it is one of the pieces.  A score is    *)
(* counted in tenths.                                                      *)

MaxPieces == 2

MaxScore == 100

HIGH_SCORE == 80
MID_SCORE == 60

NoFile == [some |-> FALSE, file |-> ""]

SomeFile(file) == [some |-> TRUE, file |-> file]

ResolutionTexts == {"4k", "4K", "ultra hd", "Ultra HD", "1080", "1080p",
                    "1080P", "fhd", "FHD", "720", "SD", ""}

TitlePieces == {"Blade Runner", "Director's Cut", "Director Cut",
                "director cut", "EXTENDED", "extended", "Remastered",
                "Uncut", "IMAX", "imax"}

Titles == UNION {[1..n -> TitlePieces] : n \in 1..MaxPieces}

\* str::contains on a title already lowercased
Contains(t, keyword) == \E i \in DOMAIN t : t[i] = keyword

TitleToLowercase(title) == [i \in DOMAIN title |-> ToLowercase(title[i])]

\* faulty variant: the keywords are looked up in the title as it is cased
GetEditionFilenameCased(title) ==
    LET t == title
    IN  IF Contains(t, "director's cut") \/ Contains(t, "director cut")
        THEN SomeFile("Directors-Cut.png")
        ELSE IF Contains(t, "extended") THEN SomeFile("Extended-Edition.png")
        ELSE IF Contains(t, "remastered") THEN SomeFile("Remastered.png")
        ELSE IF Contains(t, "uncut") THEN SomeFile("Uncut.png")
        ELSE IF Contains(t, "imax") THEN SomeFile("IMAX.png")
        ELSE NoFile

GetEditionFilename(title) ==
    LET t == TitleToLowercase(title)
    IN  IF Contains(t, "director's cut") \/ Contains(t, "director cut")
        THEN SomeFile("Directors-Cut.png")
        ELSE IF Contains(t, "extended") THEN SomeFile("Extended-Edition.png")
        ELSE IF Contains(t, "remastered") THEN SomeFile("Remastered.png")
        ELSE IF Contains(t, "uncut") THEN SomeFile("Uncut.png")
        ELSE IF Contains(t, "imax") THEN SomeFile("IMAX.png")
        ELSE NoFile

\* video_resolution, "" when the media variant carries none
GetResolutionFilename(video_resolution) ==
    LET raw_res == ToLowercase(video_resolution)
    IN  CASE raw_res \in {"4k", "ultra hd"} -> SomeFile("Ultra-HD.png")
          [] raw_res \in {"1080", "1080p", "fhd"} -> SomeFile("1080P.png")
          [] OTHER -> NoFile

GetAudienceBadgeFilename(rating) ==
    IF rating >= HIGH_SCORE THEN "audience_score_high.png"
    ELSE IF rating >= MID_SCORE THEN "audience_score_mid.png"
    ELSE "audience_score_low.png"

Mapped(fn, text, title, rating, out) ==
    [stage |-> "mapped", fn |-> fn, text |-> text, title |-> title,
     rating |-> rating, out |-> out]

MapResolution(text) ==
    /\ img = NoImg
    /\ img' = Mapped("get_resolution_filename", text, <<>>, 0,
                     GetResolutionFilename(text))
    /\ UNCHANGED offImage

MapEdition(title) ==
    /\ img = NoImg
    /\ img' = Mapped("get_edition_filename", "", title, 0,
                     GetEditionFilename(title))
    /\ UNCHANGED offImage

MapAudience(rating) ==
    /\ img = NoImg
    /\ img' = Mapped("get_audience_badge_filename", "", <<>>, rating,
                     SomeFile(GetAudienceBadgeFilename(rating)))
    /\ UNCHANGED offImage

MapStatus(text) ==
    /\ img = NoImg
    /\ img' = Mapped("get_status_filename", text, <<>>, 0,
                     SomeFile(GetStatusFilename(text)))
    /\ UNCHANGED offImage

InitBadge == Idle /\ img = NoImg

NextBadge ==
    \/ \E text \in ResolutionTexts : MapResolution(text)
    \/ \E title \in Titles : MapEdition(title)
    \/ \E rating \in 0..MaxScore : MapAudience(rating)
    \/ \E text \in StatusTexts : MapStatus(text)

SpecBadge == InitBadge /\ [][NextBadge]_vars

---------------------------------------------------------------------------
(* Properties of the badge mapping *)

\* the documented edition keywords a title holds, in any case
KeywordsOf(title) ==
    {k \in {"director", "extended", "remastered", "uncut", "imax"} :
       \E i \in DOMAIN title :
          \/ k = "director"
             /\ title[i] \in {"Director's Cut", "Director Cut", "director cut"}
          \/ k = "extended" /\ title[i] \in {"EXTENDED", "extended"}
          \/ k = "remastered" /\ title[i] = "Remastered"
          \/ k = "uncut" /\ title[i] = "Uncut"
          \/ k = "imax" /\ title[i] \in {"IMAX", "imax"}}

FileOfKeyword(k) ==
    CASE k = "director" -> "Directors-Cut.png"
      [] k = "extended" -> "Extended-Edition.png"
      [] k = "remastered" -> "Remastered.png"
      [] k = "uncut" -> "Uncut.png"
      [] k = "imax" -> "IMAX.png"

\* C23: every documented input of the mapping tables yields a badge file:
\* the resolution tokens and the edition keywords in any case, every score
\* from 0.0 to 10.0 by the thresholds 8.0 and 6.0, and every status text,
\* an unknown one giving airing_border.png.
C23_MappingTotal ==
    img.stage = "mapped" =>
        /\ (img.fn = "get_resolution_filename"
            /\ img.text \in {"4k", "4K", "ultra hd", "Ultra HD"})
           => img.out = SomeFile("Ultra-HD.png")
        /\ (img.fn = "get_resolution_filename"
            /\ img.text \in {"1080", "1080p", "1080P", "fhd", "FHD"})
           => img.out = SomeFile("1080P.png")
        /\ (img.fn = "get_edition_filename" /\ KeywordsOf(img.title) # {})
           => /\ img.out.some
              /\ \E k \in KeywordsOf(img.title) : img.out.file = FileOfKeyword(k)
        /\ (img.fn = "get_audience_badge_filename" /\ img.rating <= 100)
           => img.out = SomeFile(IF img.rating >= 80 THEN "audience_score_high.png"
                                 ELSE IF img.rating >= 60
                                      THEN "audience_score_mid.png"
                                 ELSE "audience_score_low.png")
        /\ img.fn = "get_status_filename"
           => /\ img.out.some
              /\ img.out.file \in {"returning_border.png", "cancelled_full.png",
                                   "ended_border.png", "airing_border.png"}
              /\ img.text \in {"Planned", ""}
                 => img.out.file = "airing_border.png"

\* a title with IMAX in capitals after its name has got the IMAX badge
C23_Witness ==
    /\ img.stage = "mapped"
    /\ img.fn = "get_edition_filename"
    /\ img.title = <<"Blade Runner", "IMAX">>
    /\ img.out = SomeFile("IMAX.png")
---------------------------------------------------------------------------
(* The codec badge (get_codec_combo_filename of processor.rs and main.rs): *)
(* the media variant of a movie with its coarse audioCodec token and its   *)
(* Part payload, a JSON value.  A text is a sequence of pieces, lowercased *)
(* piece by piece; a keyword is contained in it when a piece contains it.  *)

MaxStreams == 2

\* lowercase pieces that contain the keyword
Within(keyword) ==
    CASE keyword = "hdr" -> {"hdr", "hdr10", "hdr10+"}
      [] OTHER -> {keyword}

TextContains(text, keyword) ==
    \E i \in DOMAIN text : ToLowercase(text[i]) \in Within(keyword)

Video(dovi, display) ==
    [streamType |-> 1, dovi |-> dovi, displayTitle |-> display, title |-> <<>>,
     codec |-> "hevc", audioProfile |-> ""]

Audio(codec, profile, display, title) ==
    [streamType |-> 2, dovi |-> FALSE, displayTitle |-> display, title |-> title,
     codec |-> codec, audioProfile |-> profile]

Streams ==
    {Video(TRUE, <<"4K">>), Video(FALSE, <<"4K", "DoVi", "HDR10">>),
     Video(FALSE, <<"4K", "HDR10+">>), Video(FALSE, <<"4K", "HDR">>),
     Video(FALSE, <<"1080p">>),
     Audio("truehd", "", <<"TrueHD", "Atmos">>, <<>>),
     Audio("truehd", "", <<"TrueHD">>, <<>>),
     Audio("dca", "DTS:X", <<"DTS:X">>, <<>>),
     Audio("DTS", "ma", <<"DTS">>, <<>>),
     Audio("eac3", "", <<>>, <<"Atmos">>),
     Audio("ac3", "", <<>>, <<>>),
     Audio("aac", "", <<>>, <<>>),
     [streamType |-> 3, dovi |-> FALSE, displayTitle |-> <<>>, title |-> <<>>,
      codec |-> "srt", audioProfile |-> ""]}

StreamLists == UNION {[1..n -> Streams] : n \in 0..MaxStreams}

\* a part: with or without a Stream value
NoStreamPart == [hasStream |-> FALSE, streams |-> <<>>]

StreamPart(streams) == [hasStream |-> TRUE, streams |-> streams]

\* the Part value of the media variant: absent, one object, or an array
NoParts == [some |-> FALSE, list |-> <<>>]

Parts(list) == [some |-> TRUE, list |-> list]

PartShapes(streams) ==
    {Parts(<<StreamPart(streams)>>), Parts(<<NoStreamPart, StreamPart(streams)>>)}

AudioCodecs == {"", "truehd", "dca", "DTS", "EAC3", "ac3", "aac"}

HasStreamsAccess(media) ==
    media.parts.some /\ \E i \in DOMAIN media.parts.list : media.parts.list[i].hasStream

\* every stream the two loops visit
VisitedStreams(media) ==
    IF ~media.parts.some THEN {}
    ELSE UNION {{media.parts.list[i].streams[j] :
                   j \in DOMAIN media.parts.list[i].streams} :
                i \in {k \in DOMAIN media.parts.list : media.parts.list[k].hasStream}}

EitherContains(stream, keyword) ==
    TextContains(stream.displayTitle, keyword) \/ TextContains(stream.title, keyword)

Flags(media) ==
    LET video == {st \in VisitedStreams(media) : st.streamType = 1}
        audio == {st \in VisitedStreams(media) : st.streamType = 2}
    IN  [is_dv |-> \E st \in video :
                      \/ st.dovi
                      \/ EitherContains(st, "dolby vision")
                      \/ EitherContains(st, "dovi"),
         is_plus |-> \E st \in video : EitherContains(st, "hdr10+"),
         is_hdr |-> \E st \in video :
                       /\ ~EitherContains(st, "hdr10+")
                       /\ EitherContains(st, "hdr"),
         has_atmos |-> \E st \in audio : EitherContains(st, "atmos"),
         has_truehd |-> \E st \in audio : ToLowercase(st.codec) = "truehd",
         has_dts_hd |-> \E st \in audio : ToLowercase(st.codec) \in {"dca", "dts"},
         has_dts_x |-> \E st \in audio :
                          /\ ToLowercase(st.codec) \in {"dca", "dts"}
                          /\ ToLowercase(st.audioProfile) = "dts:x",
         has_dd_plus |-> \E st \in audio : ToLowercase(st.codec) \in {"eac3", "ac3"}]

NoPart == ""

\* faulty variant: HDR10+ is tested before the Dolby Vision combinations
VideoPartPlusFirst(access, f) ==
    IF ~access THEN NoPart
    ELSE IF f.is_plus THEN "Plus"
    ELSE IF f.is_dv /\ f.is_hdr THEN "DV-HDR"
    ELSE IF f.is_dv THEN "DV"
    ELSE IF f.is_hdr THEN "HDR"
    ELSE NoPart

VideoPart(access, f) ==
    IF ~access THEN NoPart
    ELSE IF f.is_dv /\ f.is_hdr THEN "DV-HDR"
    ELSE IF f.is_dv /\ f.is_plus THEN "DV-Plus"
    ELSE IF f.is_dv THEN "DV"
    ELSE IF f.is_plus THEN "Plus"
    ELSE IF f.is_hdr THEN "HDR"
    ELSE NoPart

FallbackAudio(fallback_audio) ==
    CASE fallback_audio = "truehd" -> "TrueHD"
      [] fallback_audio \in {"dca", "dts"} -> "DTS-HD"
      [] fallback_audio \in {"eac3", "ac3"} -> "DigitalPlus"
      [] OTHER -> NoPart

StreamAudio(f) ==
    IF f.has_truehd /\ f.has_atmos THEN "TrueHD-Atmos"
    ELSE IF f.has_truehd THEN "TrueHD"
    ELSE IF f.has_dts_x THEN "DTS-X"
    ELSE IF f.has_dts_hd THEN "DTS-HD"
    ELSE IF f.has_atmos THEN "Atmos"
    ELSE IF f.has_dd_plus THEN "DigitalPlus"
    ELSE NoPart

\* faulty variant: the coarse token is the last resort of the stream path too
AudioPartTokenLast(access, f, fallback_audio) ==
    IF access /\ StreamAudio(f) # NoPart THEN StreamAudio(f)
    ELSE FallbackAudio(fallback_audio)

AudioPart(access, f, fallback_audio) ==
    IF access THEN StreamAudio(f) ELSE FallbackAudio(fallback_audio)

GetCodecComboFilename(media) ==
    LET access == HasStreamsAccess(media)
        v == VideoPart(access, Flags(media))
        a == AudioPart(access, Flags(media), ToLowercase(media.audio_codec))
    IN  IF v # NoPart /\ a # NoPart THEN SomeFile(v \o "-" \o a \o ".png")
        ELSE IF v # NoPart THEN SomeFile(v \o ".png")
        ELSE IF a # NoPart THEN SomeFile(a \o ".png")
        ELSE NoFile

Media(audio_codec, parts) ==
    [stage |-> "media", audio_codec |-> audio_codec, parts |-> parts,
     asked |-> FALSE, flags |-> Flags([parts |-> NoParts]), out |-> NoFile]

CodecComboFilename ==
    /\ img.stage = "media"
    /\ ~img.asked
    /\ img' = [img EXCEPT !.asked = TRUE,
                          !.flags = Flags(img),
                          !.out = GetCodecComboFilename(img)]
    /\ UNCHANGED offImage

InitCodec ==
    /\ Idle
    /\ \E audio_codec \in AudioCodecs :
          \E parts \in {NoParts, Parts(<<>>), Parts(<<NoStreamPart>>)}
                       \cup UNION {PartShapes(streams) : streams \in StreamLists} :
             img = Media(audio_codec, parts)

NextCodec == CodecComboFilename

SpecCodec == InitCodec /\ [][NextCodec]_vars

---------------------------------------------------------------------------
(* Properties of the codec badge *)

\* first entry of an order of precedence all of whose flags are set, "" if
\* there is none
FirstMatch(order, set) ==
    IF \E i \in DOMAIN order : order[i].need \subseteq set
    THEN order[CHOOSE i \in DOMAIN order :
                 /\ order[i].need \subseteq set
                 /\ \A j \in 1..(i - 1) : ~(order[j].need \subseteq set)].name
    ELSE ""

VideoOrder ==
    <<[name |-> "DV-HDR", need |-> {"is_dv", "is_hdr"}],
      [name |-> "DV-Plus", need |-> {"is_dv", "is_plus"}],
      [name |-> "DV", need |-> {"is_dv"}],
      [name |-> "Plus", need |-> {"is_plus"}],
      [name |-> "HDR", need |-> {"is_hdr"}]>>

AudioOrder ==
    <<[name |-> "TrueHD-Atmos", need |-> {"has_truehd", "has_atmos"}],
      [name |-> "TrueHD", need |-> {"has_truehd"}],
      [name |-> "DTS-X", need |-> {"has_dts_x"}],
      [name |-> "DTS-HD", need |-> {"has_dts_hd"}],
      [name |-> "Atmos", need |-> {"has_atmos"}],
      [name |-> "DigitalPlus", need |-> {"has_dd_plus"}]>>

FlagsSet == {n \in DOMAIN img.flags : img.flags[n]}

StreamsPresent ==
    img.parts.some /\ \E i \in DOMAIN img.parts.list : img.parts.list[i].hasStream

\* C24: with flags extracted from the streams, the video component is the
\* first match of DV+HDR, DV+Plus, DV, Plus, HDR, the audio component the
\* first match of TrueHD+Atmos, TrueHD, DTS-X, DTS-HD, Atmos, DigitalPlus,
\* the file is <video>-<audio>.png or the one side that matched, and there
\* is no badge iff both sides are empty.
C24_FirstMatchWins ==
    (img.stage = "media" /\ img.asked /\ StreamsPresent)
    => LET v == FirstMatch(VideoOrder, FlagsSet)
           a == FirstMatch(AudioOrder, FlagsSet)
       IN  /\ img.out.some <=> (v # "" \/ a # "")
           /\ (v # "" /\ a # "") => img.out.file = v \o "-" \o a \o ".png"
           /\ (v # "" /\ a = "") => img.out.file = v \o ".png"
           /\ (v = "" /\ a # "") => img.out.file = a \o ".png"

\* Dolby Vision with HDR10 in one stream and HDR10+ in another: DV+HDR
\* has won over DV+Plus
C24_Witness ==
    /\ img.stage = "media" /\ img.asked
    /\ img.flags.is_dv /\ img.flags.is_hdr /\ img.flags.is_plus
    /\ img.out = SomeFile("DV-HDR.png")

\* C25: the coarse audioCodec token decides the badge exactly when no part
\* carries a streams payload: then the badge is the token's audio badge
\* with no video component, and with a streams payload the badge is the
\* same whatever the token.
C25_TokenOnlyWithoutStreams ==
    (img.stage = "media" /\ img.asked)
    => IF StreamsPresent
       THEN \A token \in AudioCodecs :
               img.out = GetCodecComboFilename([img EXCEPT !.audio_codec = token])
       ELSE img.out =
              CASE img.audio_codec = "truehd" -> SomeFile("TrueHD.png")
                [] img.audio_codec \in {"dca", "DTS"} -> SomeFile("DTS-HD.png")
                [] img.audio_codec \in {"EAC3", "ac3"} -> SomeFile("DigitalPlus.png")
                [] OTHER -> NoFile

\* a variant with the token truehd whose only stream is AAC has no badge
C25_Witness ==
    /\ img.stage = "media" /\ img.asked
    /\ img.audio_codec = "truehd"
    /\ img.parts = Parts(<<StreamPart(<<Audio("aac", "", <<>>, <<>>)>>)>>)
    /\ img.out = NoFile
---------------------------------------------------------------------------
(* The external id of an item (processor.rs, main.rs, plex.rs, cli.rs): a  *)
(* guid "tmdb://603" is kept as its scheme and its id, the legacy guid     *)
(* string "com.plexapp.agents.themoviedb://605?lang=en" as its agent, its  *)
(* id and its query.                                                       *)

MaxGuids == 2

NoId == [some |-> FALSE, id |-> ""]

SomeId(id) == [some |-> TRUE, id |-> id]

ItemTitles == {"Abyss", "ABYSS", "abyss", "Kingsman The Golden Circle", "Heat"}

Guids == {[scheme |-> "imdb", id |-> "tt0113277"], [scheme |-> "tmdb", id |-> "949"],
          [scheme |-> "tmdb", id |-> "950"], [scheme |-> "tvdb", id |-> "7"]}

GuidLists == UNION {[1..n -> Guids] : n \in 0..MaxGuids}

NoGuids == [some |-> FALSE, list |-> <<>>]

SomeGuids(list) == [some |-> TRUE, list |-> list]

NoGuidStr == [some |-> FALSE, agent |-> "", id |-> "", query |-> ""]

GuidStrs ==
    {NoGuidStr,
     [some |-> TRUE, agent |-> "com.plexapp.agents.themoviedb", id |-> "951",
      query |-> "lang=en"],
     [some |-> TRUE, agent |-> "com.plexapp.agents.imdb", id |-> "tt0113277",
      query |-> "lang=en"],
     [some |-> TRUE, agent |-> "plex", id |-> "movie/5d776", query |-> ""]}

GetForcedTmdbId(title) ==
    LET t == ToLowercase(title)
    IN  CASE t = "abyss" -> SomeId("1025527")
          [] t \in {"kingsman : le cercle d'or", "kingsman the golden circle"}
               -> SomeId("343668")
          [] OTHER -> NoId

\* the first guid of the list that starts with tmdb://
FirstTmdbGuid(guids) ==
    IF guids.some /\ \E i \in DOMAIN guids.list : guids.list[i].scheme = "tmdb"
    THEN SomeId(guids.list[CHOOSE i \in DOMAIN guids.list :
                             /\ guids.list[i].scheme = "tmdb"
                             /\ \A j \in 1..(i - 1) :
                                   guids.list[j].scheme # "tmdb"].id)
    ELSE NoId

TmdbIdOfMovie(item) ==
    IF FirstTmdbGuid(item.guids).some THEN FirstTmdbGuid(item.guids)
    ELSE IF item.guid_str.some /\ item.guid_str.agent = "com.plexapp.agents.themoviedb"
         THEN SomeId(item.guid_str.id)
    ELSE NoId

TmdbIdOfShow(item) == FirstTmdbGuid(item.guids)

\* faulty variant: the guids of the item are read before the override table
MovieExternalIdGuidFirst(item) ==
    IF TmdbIdOfMovie(item).some THEN TmdbIdOfMovie(item)
    ELSE GetForcedTmdbId(item.title)

\* process_movie and process_movie_logic
MovieExternalId(item) ==
    IF GetForcedTmdbId(item.title).some THEN GetForcedTmdbId(item.title)
    ELSE TmdbIdOfMovie(item)

\* the id of a pipeline; for a season item is its parent show
ExternalId(kind, item) ==
    IF HasStatus(kind) THEN TmdbIdOfShow(item)
    ELSE MovieExternalId(item)

PlexItem(kind, title, guids, guid_str) ==
    [stage |-> "item", kind |-> kind, title |-> title, guids |-> guids,
     guid_str |-> guid_str, asked |-> FALSE, out |-> NoId]

ExtractId ==
    /\ img.stage = "item"
    /\ ~img.asked
    /\ img' = [img EXCEPT !.asked = TRUE, !.out = ExternalId(img.kind, img)]
    /\ UNCHANGED offImage

InitExtId ==
    /\ Idle
    /\ \E kind \in Kinds, title \in ItemTitles, guid_str \in GuidStrs,
          guids \in {NoGuids} \cup {SomeGuids(l) : l \in GuidLists} :
          img = PlexItem(kind, title, guids, guid_str)

NextExtId == ExtractId

SpecExtId == InitExtId /\ [][NextExtId]_vars

---------------------------------------------------------------------------
(* Properties of the external id *)

TmdbGuidAt == {i \in DOMAIN img.guids.list : img.guids.list[i].scheme = "tmdb"}

FirstGuidId ==
    IF img.guids.some /\ TmdbGuidAt # {}
    THEN SomeId(img.guids.list[CHOOSE i \in TmdbGuidAt :
                                 \A j \in TmdbGuidAt : i <= j].id)
    ELSE NoId

\* C26: a movie takes the override entry of its lowercased title when
\* there is one, else its first tmdb:// guid, else the id of its legacy
\* themoviedb:// string, else none; a show, and a season through its
\* show, take the first tmdb:// guid of the show or none.
C26_IdPrecedence ==
    (img.stage = "item" /\ img.asked)
    => img.out =
         IF img.kind \in {"show", "season"} THEN FirstGuidId
         ELSE IF img.title \in {"Abyss", "ABYSS", "abyss"} THEN SomeId("1025527")
         ELSE IF img.title = "Kingsman The Golden Circle" THEN SomeId("343668")
         ELSE IF FirstGuidId.some THEN FirstGuidId
         ELSE IF img.guid_str.some
                 /\ img.guid_str.agent = "com.plexapp.agents.themoviedb"
              THEN SomeId("951")
         ELSE NoId

\* a movie titled ABYSS that carries a tmdb:// guid has got the override id
C26_Witness ==
    /\ img.stage = "item" /\ img.asked
    /\ img.kind = "movie" /\ img.title = "ABYSS"
    /\ FirstGuidId = SomeId("949")
    /\ img.out = SomeId("1025527")
---------------------------------------------------------------------------
(* The top-left badge stack of a movie poster (processor.rs process_movie, *)
(* main.rs process_movie_logic, image_ops.rs add_overlay): where the       *)
(* resolution badge and the edition badge are drawn.  Lengths in pixels.   *)

CANVAS_HEIGHT == 3000
BADGE_PERMILLE == 65
MARGIN == 30
SPACING == 12

\* a badge of the item: none when the mapping gives no file, else the file
\* as the overlays directory holds it
NoBadge == [mapped |-> FALSE, file |-> "none", width |-> 0, height |-> 0]

BadgeFile(file, width, height) ==
    [mapped |-> TRUE, file |-> file, width |-> width, height |-> height]

BadgeFiles ==
    {BadgeFile("missing", 0, 0), BadgeFile("corrupt", 0, 0)}
    \cup {BadgeFile("ok", w, h) : w \in {300, 480, 600}, h \in {195, 390}}

TargetHeight == (CANVAS_HEIGHT * BADGE_PERMILLE) \div 1000

\* width of the badge once resized to the target height
RenderedWidth(badge) == (badge.width * TargetHeight) \div badge.height

FinalX(offset_index, width) == MARGIN + offset_index * (width + SPACING)

\* add_overlay at the top left: the layers after the call, and whether it
\* returned Ok
AddOverlayAt(layers, badge, stage, offset_index) ==
    CASE badge.file = "missing" -> Drawn(layers)
      [] badge.file = "corrupt" -> Failed(layers)
      [] OTHER ->
           Drawn(Append(layers,
                        [stage |-> stage,
                         x |-> FinalX(offset_index, RenderedWidth(badge)),
                         width |-> RenderedWidth(badge)]))

Stack(resolution, edition) ==
    [stage |-> "stack", resolution |-> resolution, edition |-> edition,
     todo |-> <<"resolution", "edition">>, top_left_index |-> 0, layers |-> <<>>]

StackResolution ==
    /\ img.stage = "stack"
    /\ img.todo # <<>> /\ Head(img.todo) = "resolution"
    /\ LET r == AddOverlayAt(img.layers, img.resolution, "resolution",
                             img.top_left_index)
       IN  img' = IF img.resolution.mapped /\ r.ok
                  THEN [img EXCEPT !.todo = Tail(@), !.layers = r.layers,
                                   !.top_left_index = @ + 1]
                  ELSE [img EXCEPT !.todo = Tail(@)]
    /\ UNCHANGED offImage

StackEdition ==
    /\ img.stage = "stack"
    /\ img.todo # <<>> /\ Head(img.todo) = "edition"
    /\ LET r == AddOverlayAt(img.layers, img.edition, "edition",
                             img.top_left_index)
       IN  img' = IF img.edition.mapped /\ r.ok
                  THEN [img EXCEPT !.todo = Tail(@), !.layers = r.layers]
                  ELSE [img EXCEPT !.todo = Tail(@)]
    /\ UNCHANGED offImage

InitStack ==
    /\ Idle
    /\ \E resolution \in {NoBadge} \cup BadgeFiles,
          edition \in {NoBadge} \cup BadgeFiles :
          img = Stack(resolution, edition)

NextStack == StackResolution \/ StackEdition

SpecStack == InitStack /\ [][NextStack]_vars

---------------------------------------------------------------------------
(* Properties of the badge stack *)

Stacked == img.stage = "stack" /\ img.todo = <<>>

DrawnAt(stage) == {i \in DOMAIN img.layers : img.layers[i].stage = stage}

\* C27 as stated: the first badge of the stack is at x = 30; the edition
\* badge next to a resolution badge is at 30 + (rendered width of the
\* resolution badge) + 12; with no resolution badge drawn the edition badge
\* is at x = 30.
C27_AsStated ==
    Stacked =>
        /\ img.layers # <<>> => img.layers[1].x = 30
        /\ \A i \in DrawnAt("resolution"), j \in DrawnAt("edition") :
              /\ img.layers[j].x = 30 + img.layers[i].width + 12
              /\ img.layers[j].x - (img.layers[i].x + img.layers[i].width) = 12
        /\ DrawnAt("resolution") = {}
           => \A j \in DrawnAt("edition") : img.layers[j].x = 30

\* an edition badge narrower than the resolution badge is drawn over it
C27_Witness ==
    /\ Stacked
    /\ \E i \in DrawnAt("resolution"), j \in DrawnAt("edition") :
          /\ img.layers[i].x = 30
          /\ img.layers[j].x < img.layers[i].x + img.layers[i].width
---------------------------------------------------------------------------
(* The two mutexes of AppState (main.rs): every handler and the webhook    *)
(* task as the sequence of its lock acquisitions, guard drops, outbound    *)
(* requests and sleeps.  A guard still held when the function returns is   *)
(* dropped by the return.                                                  *)

Handlers == {"get_plex_image", "get_library_json", "refresh_library_cache",
             "run_full_library_scan", "process_single_movie_by_id"}

LockOf(m) == [op |-> "lock", m |-> m, exits |-> FALSE, skips |-> FALSE]

DropOf(m, exits) == [op |-> "drop", m |-> m, exits |-> exits, skips |-> FALSE]

Request(exits, skips) == [op |-> "request", m |-> "", exits |-> exits, skips |-> skips]

Sleep == [op |-> "sleep", m |-> "", exits |-> FALSE, skips |-> FALSE]

\* exits: the function may return right after the step (cache hit, failed
\* request); skips: the next step may be left out (no redirection)
Program(h) ==
    CASE h = "get_plex_image" ->
           <<LockOf("config"), Request(TRUE, TRUE), Request(TRUE, FALSE),
             Request(FALSE, FALSE)>>
      [] h = "get_library_json" ->
           <<LockOf("cache"), DropOf("cache", TRUE), LockOf("config"),
             DropOf("config", FALSE), Request(TRUE, FALSE), LockOf("cache"),
             DropOf("cache", FALSE)>>
      [] h = "refresh_library_cache" ->
           <<LockOf("cache"), DropOf("cache", FALSE), LockOf("config"),
             DropOf("config", FALSE), Request(TRUE, FALSE), LockOf("cache"),
             DropOf("cache", FALSE)>>
      [] h = "run_full_library_scan" ->
           <<LockOf("config"), DropOf("config", FALSE), Request(TRUE, FALSE),
             Request(FALSE, FALSE), LockOf("cache"), DropOf("cache", FALSE)>>
      [] OTHER ->
           <<LockOf("config"), DropOf("config", FALSE), Sleep,
             Request(TRUE, FALSE), Request(TRUE, FALSE), LockOf("cache"),
             DropOf("cache", FALSE)>>

Free == "free"

LocksUp == [phase |-> "locks",
            holder |-> [m \in {"config", "cache"} |-> Free],
            pc |-> [h \in Handlers |-> 0]]

Running(h) ==
    /\ srv.phase = "locks"
    /\ srv.pc[h] \in 1..Len(Program(h))

Instr(h) == Program(h)[srv.pc[h]]

\* where a handler goes on after a step
Onward(h) ==
    {srv.pc[h] + 1}
    \cup (IF Instr(h).exits THEN {Len(Program(h)) + 1} ELSE {})
    \cup (IF Instr(h).skips THEN {srv.pc[h] + 2} ELSE {})

StartHandler(h) ==
    /\ srv.phase = "locks"
    /\ srv.pc[h] = 0
    /\ srv' = [srv EXCEPT !.pc[h] = 1]
    /\ UNCHANGED <<labelled, offServer>>

LockMutex(h) ==
    /\ Running(h)
    /\ Instr(h).op = "lock"
    /\ srv.holder[Instr(h).m] = Free
    /\ srv' = [srv EXCEPT !.holder[Instr(h).m] = h, !.pc[h] = @ + 1]
    /\ UNCHANGED <<labelled, offServer>>

DropGuard(h) ==
    /\ Running(h)
    /\ Instr(h).op = "drop"
    /\ \E next \in Onward(h) :
          srv' = [srv EXCEPT !.holder[Instr(h).m] = Free, !.pc[h] = next]
    /\ UNCHANGED <<labelled, offServer>>

\* the outbound request of the step is answered
Answered(h) ==
    /\ Running(h)
    /\ Instr(h).op = "request"
    /\ \E next \in Onward(h) : srv' = [srv EXCEPT !.pc[h] = next]
    /\ UNCHANGED <<labelled, offServer>>

Slept(h) ==
    /\ Running(h)
    /\ Instr(h).op = "sleep"
    /\ srv' = [srv EXCEPT !.pc[h] = @ + 1]
    /\ UNCHANGED <<labelled, offServer>>

ReturnHandler(h) ==
    /\ srv.phase = "locks"
    /\ srv.pc[h] > Len(Program(h))
    /\ srv' = [srv EXCEPT !.pc[h] = 0,
                          !.holder = [m \in DOMAIN @ |->
                                        IF @[m] = h THEN Free ELSE @[m]]]
    /\ UNCHANGED <<labelled, offServer>>

InitLocks ==
    /\ labelled = [i \in Items |-> FALSE]
    /\ cmd = NoCmd
    /\ run = [i \in Items |-> NoRun]
    /\ results = [i \in {} |-> 0]
    /\ last = [i \in Items |-> NoLast]
    /\ srv = LocksUp
    /\ img = NoImg

NextLocks ==
    \E h \in Handlers :
       \/ StartHandler(h)
       \/ LockMutex(h)
       \/ DropGuard(h)
       \/ Answered(h)
       \/ Slept(h)
       \/ ReturnHandler(h)

SpecLocks == InitLocks /\ [][NextLocks]_vars

---------------------------------------------------------------------------
(* Properties of the mutexes *)

InRequest(h) ==
    /\ srv.pc[h] \in 1..Len(Program(h))
    /\ Program(h)[srv.pc[h]].op = "request"

AwaitsLock(h, m) ==
    /\ srv.pc[h] \in 1..Len(Program(h))
    /\ Program(h)[srv.pc[h]] = LockOf(m)

\* C28 as stated: no handler and no background task holds the
\* configuration mutex or the cache mutex while one of its outbound
\* requests is in progress.
C28_AsStated ==
    srv.phase = "locks" =>
        \A h \in Handlers :
           InRequest(h) => \A m \in DOMAIN srv.holder : srv.holder[m] # h

\* get_plex_image waits for the media server with the configuration mutex
\* in its hands while get_library_json and the scan wait for the mutex
C28_Witness ==
    /\ srv.phase = "locks"
    /\ InRequest("get_plex_image")
    /\ srv.holder["config"] = "get_plex_image"
    /\ AwaitsLock("get_library_json", "config")
    /\ AwaitsLock("run_full_library_scan", "config")
---------------------------------------------------------------------------
(* Loads of the catalog cache against its invalidations (main.rs):         *)
(* get_library_json and refresh_library_cache fetch the list without the   *)
(* cache lock and store it afterwards; a webhook task or a scan labels an  *)
(* item on the media server and then invalidates the cache.  The state     *)
(* counts the invalidations and keeps, for every fetched list, how many    *)
(* had been made when the media server answered.                           *)

MaxInvals == 2

Loaders == {"get_library_json", "refresh_library_cache"}

NoLoad == [pc |-> "idle", list |-> <<>>, invals |-> 0]

LoadsUp == [phase |-> "load", now |-> 0, cache |-> CacheNew,
            load |-> [h \in Loaders |-> NoLoad],
            job |-> "free", invals |-> 0, cachedAt |-> 0]

\* cache.invalidate() under the lock
Invalidated(sv) ==
    [sv EXCEPT !.cache = CacheInvalidate(@), !.invals = @ + 1]

\* the handler is called: get_library_json returns a cache hit at once,
\* refresh_library_cache invalidates the cache first
LoadBegin(h) ==
    /\ srv.phase = "load"
    /\ srv.load[h].pc = "idle"
    /\ IF h = "get_library_json"
       THEN srv' = IF CacheGet(srv.cache, srv.now).some THEN srv
                   ELSE [srv EXCEPT !.load[h].pc = "fetch"]
       ELSE /\ srv.invals < MaxInvals
            /\ srv' = [Invalidated(srv) EXCEPT !.load[h].pc = "fetch"]
    /\ UNCHANGED <<labelled, offServer>>

\* get_library_items_with_labels has answered
LoadFetched(h, ok) ==
    /\ srv.phase = "load"
    /\ srv.load[h].pc = "fetch"
    /\ srv' = IF ok
              THEN [srv EXCEPT !.load[h] = [pc |-> "update", list |-> labelled,
                                            invals |-> srv.invals]]
              ELSE [srv EXCEPT !.load[h] = NoLoad]
    /\ UNCHANGED <<labelled, offServer>>

\* the handler has the cache lock again: cache.update(movies)
LoadUpdate(h) ==
    /\ srv.phase = "load"
    /\ srv.load[h].pc = "update"
    /\ srv' = [srv EXCEPT !.cache = CacheUpdate(@, srv.load[h].list, srv.now),
                          !.cachedAt = srv.load[h].invals,
                          !.load[h] = NoLoad]
    /\ UNCHANGED <<labelled, offServer>>

\* a task or a scan has uploaded the poster of item i and set its label
JobLabelled(i) ==
    /\ srv.phase = "load"
    /\ srv.job = "free"
    /\ ~labelled[i]
    /\ srv.invals < MaxInvals
    /\ labelled' = ServerLabel(labelled, i, "ok")
    /\ srv' = [srv EXCEPT !.job = "ret"]
    /\ UNCHANGED offServer

\* ... and invalidates the cache before it ends
JobInvalidates ==
    /\ srv.phase = "load"
    /\ srv.job = "ret"
    /\ srv' = [Invalidated(srv) EXCEPT !.job = "free"]
    /\ UNCHANGED <<labelled, offServer>>

LoadTick ==
    /\ srv.phase = "load"
    /\ srv.now + CACHE_TTL <= MaxCacheClock
    /\ srv' = [srv EXCEPT !.now = @ + CACHE_TTL]
    /\ UNCHANGED <<labelled, offServer>>

InitLoad ==
    /\ labelled = [i \in Items |-> FALSE]
    /\ cmd = NoCmd
    /\ run = [i \in Items |-> NoRun]
    /\ results = [i \in {} |-> 0]
    /\ last = [i \in Items |-> NoLast]
    /\ srv = LoadsUp
    /\ img = NoImg

NextLoad ==
    \/ \E h \in Loaders : LoadBegin(h)
    \/ \E h \in Loaders, ok \in BOOLEAN : LoadFetched(h, ok)
    \/ \E h \in Loaders : LoadUpdate(h)
    \/ \E i \in Items : JobLabelled(i)
    \/ JobInvalidates
    \/ LoadTick

SpecLoad == InitLoad /\ [][NextLoad]_vars

---------------------------------------------------------------------------
(* Properties of the loads *)

\* C29 as stated: the cache is never valid with a list the media server
\* handed out before the most recent invalidation.
C29_AsStated ==
    srv.phase = "load" =>
        (IsValid(srv.cache, srv.now) => srv.cachedAt = srv.invals)

\* the cache is valid with a list fetched before a task invalidated it,
\* and the list lacks the label the task has set
C29_Witness ==
    /\ srv.phase = "load"
    /\ IsValid(srv.cache, srv.now)
    /\ srv.cachedAt < srv.invals
    /\ srv.job = "free"
    /\ srv.cache.movies # labelled
---------------------------------------------------------------------------
(* Properties of the freshness test *)

\* the border stage has asked is_recently_added about the item
FreshnessAsked ==
    /\ img.stage # "none"
    /\ BorderRuns # {}
    /\ AsksRecent(img.kind, img.status)

\* C30 as stated: is_recently_added answers with a boolean for every
\* added_at of a movie, a show or a season, one later than the current
\* time included: the subtraction never aborts the pipeline.
C30_AsStated ==
    FreshnessAsked =>
        /\ img.recent \in {"yes", "no"}
        /\ img.stage # "panicked"

\* a season added one second after the current time: the subtraction has
\* panicked in the border stage and the poster is lost
C30_Witness ==
    /\ FreshnessAsked
    /\ img.kind = "season"
    /\ img.added = AddedAhead(1)
    /\ img.stage = "panicked"
    /\ img.layers = <<>>

====
